---- MODULE Spec2Model ----
(***************************************************************************)
(* AzVault backend: token lifecycle manager (auth/mod.rs) and resilient    *)
(* HTTP request layer (azure/mod.rs).                                      *)
(*                                                                         *)
(* The specifications share the variables of this module:                  *)
(*   Spec      - AuthManager driven by its callers (Procs)                 *)
(*   SpecAudit - AuthManager with hostile tenant inputs, keeping a history *)
(*               of the errors the token endpoint and the CLI produced     *)
(*   SpecHttp  - AzureClient::request_json                                 *)
(*   SpecList  - AzureClient::list_secrets                                 *)
(*   SpecListFair - the same, every pending send resolving eventually      *)
(*   SpecUrl   - AzureClient::is_allowed_azure_url as a pure function      *)
(*   SpecConc  - AuthManager with two callers whose calls interleave       *)
(*   SpecTenant - the same with one token per tenant, the clock standing   *)
(*               still; SpecTenantFair adds that every call is polled      *)
(*   SpecAuditLog - AuditLogger::log_action and clear                      *)
(*   SpecCmd   - the Tauri commands on top of AuthManager, AzureClient and *)
(*               AuditLogger, one front end, the clock standing still      *)
(*                                                                         *)
(* Rust Option<T> is modelled as a sequence: <<>> is None, <<x>> is        *)
(* Some(x).  The keyring (secure storage) is modelled as reliable: set,    *)
(* get and delete always succeed.                                          *)
(***************************************************************************)
EXTENDS Integers, Sequences, FiniteSets, TLC

VARIABLES
    tenant_id,      \* AuthManager.tenant_id (the String inside the RwLock)
    tenant_lock,    \* holder of the write guard of tenant_id, or "free"
    token_cache,    \* AuthManager.token_cache (the TokenCache inside the RwLock)
    keyring,        \* the keyring entry azvault/auth_session: Option<PersistedSession>
    now,            \* the system clock read by epoch_now()
    pc,             \* per caller: position inside the AuthManager method it runs
    loc,            \* per caller: the method's local variables
    ret,            \* per caller: the value returned by its last completed call
    trace,          \* per caller: the external effects of its current/last call
    env,            \* the inputs the environment can supply (fixed by Init)
    hist,           \* under environments that keep history: the refresh tokens the
                    \* token endpoint rejected, and per caller the errors that its
                    \* current/last call swallowed
    h,              \* the state of one request_json / list_secrets invocation
    server,         \* the remote vault: page URL -> response body
    u,              \* input and output of one is_allowed_azure_url evaluation
    cache_lock,     \* the guards of the token_cache RwLock alive across an await:
                    \* a set of <<caller, "read" | "write">>
    audit,          \* AuditLogger.entries, with the number of entries ever pushed
    cmd             \* per caller: the Tauri command it runs and how far it got

authVars == <<tenant_id, tenant_lock, token_cache, keyring, now, pc, loc, ret, trace, env, hist,
              cache_lock>>
appVars == <<audit, cmd>>
httpVars == <<h, server>>
vars == <<tenant_id, tenant_lock, token_cache, keyring, now, pc, loc, ret, trace, env, hist, h, server, u,
          cache_lock, audit, cmd>>

----------------------------------------------------------------------------
(* Option helpers *)
None == <<>>
Some(x) == <<x>>
IsSome(o) == o # <<>>
Unwrap(o) == o[1]

----------------------------------------------------------------------------
(* Bounds of the model *)

\* the clock takes the values 0, 60, ..., MaxTicks * 60
MaxTicks == 1
\* the longest host name, in labels, handed to is_allowed_azure_url
MaxLabels == 4
\* a listing is followed for at most this many pages
MaxRequests == 4
\* the audit logger on its own receives at most this many calls
MaxCalls == 4
\* commands are invoked while the audit log holds fewer entries than this
MaxAudited == 1

----------------------------------------------------------------------------
(* Program constants *)

\* the safety margin subtracted from expires_at
SkewSecs == 60
\* body["expires_in"].as_u64().unwrap_or(3600)
DefaultExpiresIn == 3600

\* const MAX_RETRIES: usize = 3
MAX_RETRIES == 3
\* (1_u64 << attempt).min(8)
MaxBackoffSecs == 8

DefaultTenant == "organizations"
NotAuthenticated == "Not authenticated. Please sign in (or run az login)."
MANAGEMENT_SCOPE == "https://management.azure.com/.default"
VAULT_SCOPE == "https://vault.azure.net/.default"
CliManagementResource == "https://management.azure.com/"
CliVaultResource == "https://vault.azure.net"

----------------------------------------------------------------------------
(* Input sets *)

Procs == {"p1", "p2"}
Audiences == {"management", "vault"}
TenantInputs == {"organizations", "72f988bf-86f1"}
\* what a hostile front end can hand to set_tenant
HostileTenantInputs == {"organizations", "72f9;rm -rf /"}
AccessTokens == {"at1"}
RefreshTokens == {"rt1", "rt2"}
ExpiresInInputs == {Some(30), Some(120)}

\* what the identity endpoint can answer to a POST .../oauth2/v2.0/token
TokenEndpointOutcomes ==
    { [kind |-> k, error |-> "", access_token |-> None, refresh_token |-> None,
       expires_in |-> None] : k \in {"network_error", "parse_error"} }
    \cup
    { [kind |-> "error_body", error |-> e, access_token |-> None,
       refresh_token |-> None, expires_in |-> None]
        : e \in {"authorization_pending", "slow_down", "expired_token"} }
    \cup
    { [kind |-> "token_body", error |-> "", access_token |-> a, refresh_token |-> r,
       expires_in |-> e]
        : a \in {None} \cup {Some(x) : x \in AccessTokens},
          r \in {None} \cup {Some(x) : x \in RefreshTokens},
          e \in ExpiresInInputs }

\* the answers of the identity endpoint to concurrent callers: the two token
\* bodies differ in every field
ConcurrentTokenOutcomes ==
    { [kind |-> "network_error", error |-> "", access_token |-> None,
       refresh_token |-> None, expires_in |-> None],
      [kind |-> "token_body", error |-> "", access_token |-> Some("at1"),
       refresh_token |-> Some("rt2"), expires_in |-> Some(120)],
      [kind |-> "token_body", error |-> "", access_token |-> Some("at2"),
       refresh_token |-> Some("rt1"), expires_in |-> Some(30)] }

\* what running `az account get-access-token` can produce
CliOutcomes ==
    { [kind |-> k, accessToken |-> ""]
        : k \in {"unavailable", "nonzero_exit", "bad_json", "no_access_token"} }
    \cup { [kind |-> "token", accessToken |-> "cli1"] }

\* the inputs available under an environment
EnvTenants(e) ==
    CASE e.inputs = "hostile" -> HostileTenantInputs
      [] e.inputs \in {"concurrent", "tenants"} -> {"72f988bf-86f1"}
      [] OTHER -> TenantInputs
EnvTokenOutcomes(e) ==
    CASE e.inputs = "hostile" ->
            { o \in TokenEndpointOutcomes :
                o.kind = "token_body" => (IsSome(o.access_token) /\ o.expires_in = Some(120)) }
      [] e.inputs = "commands" ->
            { o \in TokenEndpointOutcomes :
                \/ o.kind = "network_error"
                \/ /\ o.kind = "token_body"
                   /\ IsSome(o.access_token)
                   /\ o.refresh_token = Some("rt2")
                   /\ o.expires_in = Some(120) }
      [] e.inputs = "concurrent" -> ConcurrentTokenOutcomes
      [] OTHER -> TokenEndpointOutcomes
EnvCliOutcomes(e) ==
    CASE e.inputs = "commands" -> { o \in CliOutcomes : o.kind \in {"unavailable", "token"} }
      [] e.inputs \in {"concurrent", "tenants"} -> { o \in CliOutcomes : o.kind = "unavailable" }
      [] OTHER -> CliOutcomes
EnvMaxNow(e) == MaxTicks * 60

\* the access token the identity endpoint mints for a tenant, where tokens
\* are told apart by tenant
AccessTokenOf(tenant) == IF tenant = DefaultTenant THEN "at1" ELSE "at2"

\* the answers of the identity endpoint to a POST .../{tenant}/oauth2/v2.0/token:
\* under the environment "tenants" the token it mints is the one of the
\* tenant in the URL
MintedFor(e, tenant) ==
    IF e.inputs = "tenants"
    THEN { [kind |-> "network_error", error |-> "", access_token |-> None,
            refresh_token |-> None, expires_in |-> None],
           [kind |-> "token_body", error |-> "", access_token |-> Some(AccessTokenOf(tenant)),
            refresh_token |-> Some("rt2"), expires_in |-> Some(120)] }
    ELSE EnvTokenOutcomes(e)

----------------------------------------------------------------------------
(* TokenCache and PersistedSession *)

\* models::TokenResponse.  The fields expires_in and token_type are written but
\* never read back from the cache; the model keeps expires_in only while the
\* response is a local variable of the method that received it.
TokenResponse(access, refresh, expires_in) ==
    [access_token |-> access, refresh_token |-> refresh, expires_in |-> expires_in]
\* the TokenResponse as it sits in the TokenCache
Stored(token) == [access_token |-> token.access_token, refresh_token |-> token.refresh_token]

TokenCacheNew ==
    [management_token |-> None, vault_token |-> None,
     management_expires_at |-> None, vault_expires_at |-> None]

PersistedSession(tenant, refresh) == [tenant_id |-> tenant, refresh_token |-> refresh]

\* a keyring payload that serde_json cannot read as a PersistedSession
UnreadablePayload == [raw |-> "not a session"]

\* entry.get_password().ok()? and serde_json::from_str(&raw).ok(): the entry
\* yields a session only if it exists and has both fields
load_session(kr) ==
    IF IsSome(kr) /\ DOMAIN Unwrap(kr) = {"tenant_id", "refresh_token"}
    THEN Some(PersistedSession(Unwrap(kr).tenant_id, Unwrap(kr).refresh_token))
    ELSE None
save_session(tenant, refresh) == Some(PersistedSession(tenant, refresh))
clear_session == None

\* u64::saturating_sub
SaturatingSub(a, b) == IF a >= b THEN a - b ELSE 0

\* IsUsable with the margin subtracted twice
IsUsable_DoubleSkew(token, expires, n) ==
    /\ IsSome(token)
    /\ IsSome(expires)
    /\ Unwrap(token).access_token # ""
    /\ n < SaturatingSub(SaturatingSub(Unwrap(expires), SkewSecs), SkewSecs)

\* IsUsable with a wrapping u64 subtraction in place of saturating_sub
IsUsable_WrappingSub(token, expires, n) ==
    /\ IsSome(token)
    /\ IsSome(expires)
    /\ Unwrap(token).access_token # ""
    /\ \/ Unwrap(expires) < SkewSecs   \* the difference wraps to nearly 2^64
       \/ n < Unwrap(expires) - SkewSecs

\* the test of get_management_token / get_vault_token on the cached entry
IsUsable(token, expires, n) ==
    /\ IsSome(token)
    /\ IsSome(expires)
    /\ Unwrap(token).access_token # ""
    /\ n < SaturatingSub(Unwrap(expires), SkewSecs)

CachedToken(cache, aud) ==
    IF aud = "management" THEN cache.management_token ELSE cache.vault_token
CachedExpiry(cache, aud) ==
    IF aud = "management" THEN cache.management_expires_at ELSE cache.vault_expires_at

\* KnownRefresh falling back to the refresh token stored with the vault token
KnownRefresh_AnyEntry(cache) ==
    IF IsSome(cache.management_token) /\ IsSome(Unwrap(cache.management_token).refresh_token)
    THEN Unwrap(cache.management_token).refresh_token
    ELSE IF IsSome(cache.vault_token)
         THEN Unwrap(cache.vault_token).refresh_token
         ELSE None

\* cache.management_token.as_ref().and_then(|t| t.refresh_token.clone())
KnownRefresh(cache) ==
    IF IsSome(cache.management_token)
    THEN Unwrap(cache.management_token).refresh_token
    ELSE None

\* the TokenResponse built from a token-endpoint body without an error field
TokenFromBody(body) ==
    TokenResponse(
        IF IsSome(body.access_token) THEN Unwrap(body.access_token) ELSE "",
        body.refresh_token,
        IF IsSome(body.expires_in) THEN Unwrap(body.expires_in) ELSE DefaultExpiresIn)

\* get_az_cli_token: Ok(accessToken) or Err
AzCliToken(out) ==
    IF out.kind = "token"
    THEN [ok |-> TRUE, val |-> out.accessToken]
    ELSE [ok |-> FALSE, val |-> out.kind]

ScopeOf(aud) == IF aud = "management" THEN MANAGEMENT_SCOPE ELSE VAULT_SCOPE
CliResourceOf(aud) == IF aud = "management" THEN CliManagementResource ELSE CliVaultResource

----------------------------------------------------------------------------
(* Callers *)

NoLoc ==
    [op |-> "none", aud |-> "none", arg |-> "", now |-> 0, refresh |-> "",
     token |-> None, tenant |-> ""]
NoRet == [op |-> "none", arg |-> "none", ok |-> FALSE, val |-> ""]

\* the external effects a call can have, as recorded in trace
CacheHitEvent == "cache_hit"
CacheWriteEvent == "cache_write"
SessionSaveEvent == "session_save"
SessionClearEvent == "session_clear"
RefreshEvent == "refresh_grant"
CliEvent == "cli"
PollEvent == "device_poll"
DeviceCodeEvent == "device_code_request"

TenantReadable(p) == tenant_lock \in {"free", p}

\* the method returns: the caller is idle again and holds the result
Return(p, op, arg, ok, val) ==
    /\ pc' = [pc EXCEPT ![p] = "idle"]
    /\ loc' = [loc EXCEPT ![p] = NoLoc]
    /\ ret' = [ret EXCEPT ![p] = [op |-> op, arg |-> arg, ok |-> ok, val |-> val]]

\* the history at construction: nothing rejected, nothing swallowed, no call
\* overtaken by a sign_out while it awaited the identity endpoint
NoHist == [failed |-> {}, swallowed |-> [p \in Procs |-> <<>>], overtaken |-> {}]

\* the history becomes v where history is kept
Remember(v) == hist' = IF env.history THEN v ELSE hist

\* caller p starts a call: nothing swallowed yet
ForgetSwallowed(p) ==
    Remember([hist EXCEPT !.swallowed[p] = <<>>, !.overtaken = @ \ {p}])

\* the callers whose request to the identity endpoint is awaiting its response
AwaitingResponse == {q \in Procs : pc[q] \in {"rt_wait", "pd_wait"}}

\* caller p runs sign_out: the calls in flight are overtaken
RememberSignOut(p) ==
    Remember([hist EXCEPT !.swallowed[p] = <<>>,
                          !.overtaken = (@ \ {p}) \cup AwaitingResponse])

\* tokio::sync::RwLock on token_cache: a read guard is granted unless a write
\* guard is alive, a write guard only when no guard is alive
CacheReadable == \A g \in cache_lock : g[2] # "write"
CacheWritable == cache_lock = {}

\* DropGuard when the guard is left alive until the end of its block
DropGuard_UntilEndOfBlock(lock, g) == lock

\* drop(cache)
DropGuard(lock, g) == lock \ {g}

\* the guards of caller p go out of scope
Released(lock, p) == {g \in lock : g[1] # p}

----------------------------------------------------------------------------
(* URLs.  A URL string is modelled as the sequence of its pieces: the       *)
(* scheme, "://", the labels of the host separated by ".", and, after a     *)
(* "/", the rest.  A string without "://" has a single piece.               *)

Labels == {"management", "azure", "com", "vault", "net", "usgovcloudapi", "cn", "evil"}

RECURSIVE JoinLabels(_)
\* the host name made of a non-empty sequence of labels
JoinLabels(ls) ==
    IF Len(ls) = 1 THEN <<ls[1]>>
    ELSE <<ls[1], ".">> \o JoinLabels(Tail(ls))

\* format!("{}://{}{}", scheme, host, path)
RenderUrl(scheme, ls, path) == <<scheme, "://">> \o JoinLabels(ls) \o path

\* the position of the first "/" at or after position i, or Len(url) + 1
RECURSIVE PathStart(_, _)
PathStart(url, i) ==
    IF i > Len(url) THEN i
    ELSE IF url[i] = "/" THEN i
    ELSE PathStart(url, i + 1)

\* Url::parse followed by scheme() and host_str()
ParseUrl(url) ==
    IF Len(url) < 3 \/ url[2] # "://" \/ url[3] = "/"
    THEN [ok |-> FALSE, scheme |-> "", host |-> <<>>]
    ELSE [ok |-> TRUE, scheme |-> url[1],
          host |-> SubSeq(url, 3, PathStart(url, 3) - 1)]

\* str::ends_with
EndsWith(str, suffix) ==
    /\ Len(str) >= Len(suffix)
    /\ SubSeq(str, Len(str) - Len(suffix) + 1, Len(str)) = suffix

\* str::contains
ContainsStr(str, sub) ==
    \E i \in 1..(Len(str) - Len(sub) + 1) : SubSeq(str, i, i + Len(sub) - 1) = sub

ManagementHost == <<"management", ".", "azure", ".", "com">>
VaultSuffixes ==
    { <<".", "vault", ".", "azure", ".", "net">>,
      <<".", "vault", ".", "usgovcloudapi", ".", "net">>,
      <<".", "vault", ".", "azure", ".", "cn">> }

\* is_allowed_azure_url matching the vault suffixes anywhere in the host
is_allowed_azure_url_Contains(url) ==
    LET parsed == ParseUrl(url)
    IN  /\ parsed.ok
        /\ parsed.scheme = "https"
        /\ \/ parsed.host = ManagementHost
           \/ \E suffix \in VaultSuffixes : ContainsStr(parsed.host, suffix)

\* AzureClient::is_allowed_azure_url
is_allowed_azure_url(url) ==
    LET parsed == ParseUrl(url)
    IN  /\ parsed.ok
        /\ parsed.scheme = "https"
        /\ \/ parsed.host = ManagementHost
           \/ \E suffix \in VaultSuffixes : EndsWith(parsed.host, suffix)

----------------------------------------------------------------------------
(* The remote side of request_json *)

VaultUri == RenderUrl("https", <<"evil", "vault", "azure", "net">>, <<>>)
\* format!("{}/secrets?api-version={}", vault_uri, API_VERSION_KEYVAULT_DATA)
SecretsUrl(vault_uri) == vault_uri \o <<"/", "secrets?api-version=7.5">>
Page1Url == VaultUri \o <<"/", "secrets?api-version=7.5&$skiptoken=1">>
Page2Url == VaultUri \o <<"/", "secrets?api-version=7.5&$skiptoken=2">>
PageUrls == {SecretsUrl(VaultUri), Page1Url, Page2Url}
\* a lookalike of a vault host, and other destinations outside the allowlist
LookalikeUrl ==
    RenderUrl("https", <<"vault", "azure", "net", "evil", "com">>, <<"/", "secrets">>)
PlainHttpUrl == RenderUrl("http", <<"management", "azure", "com">>, <<"/", "subscriptions">>)
ManagementUrl == RenderUrl("https", <<"management", "azure", "com">>, <<"/", "subscriptions">>)
NotAUrl == <<"not a url">>

\* the "id" of a raw item, split at '/'
SecretId(name) == <<"https:", "", "evil.vault.azure.net", "secrets", name>>
RawItem(name) == [id |-> SecretId(name)]

\* a JSON response body, reduced to the fields the client reads
Body(value, nextLink, error) == [value |-> value, nextLink |-> nextLink, error |-> error]
\* serde_json::json!({})
EmptyBody == Body(None, None, None)
ErrorBody(status) ==
    Body(None, None,
         Some(CASE status = 404 -> "SecretNotFound"
                [] status = 401 -> "Unauthorized"
                [] status = 429 -> "TooManyRequests"
                [] OTHER -> "ServiceUnavailable"))

PageValues == {None, Some(<<RawItem("s2"), RawItem("s1")>>)}
PageLinks == {None} \cup {Some(x) : x \in PageUrls \cup {LookalikeUrl}}
\* the vaults: every choice of items and continuation for the first two
\* pages; the third page, when reached, is the last
Servers ==
    { srv \in [PageUrls -> {Body(v, l, None) : v \in PageValues, l \in PageLinks}] :
        srv[Page2Url].nextLink = None }

\* the vault serving one page without continuation
OnePageServer ==
    [x \in PageUrls |-> Body(Some(<<RawItem("s2"), RawItem("s1")>>), None, None)]

Statuses == {200, 404, 429, 503}
RetryAfterHeaders == {None, Some("5"), Some("Wed, 21 Oct 2026 07:28:00 GMT")}

\* what one req.send().await can produce
SendOutcomes ==
    { [kind |-> "transport_error", status |-> 0, retry_after |-> None, parse_ok |-> TRUE] }
    \cup
    { [kind |-> "response", status |-> st, retry_after |-> ra, parse_ok |-> ok]
        : st \in Statuses, ra \in RetryAfterHeaders, ok \in BOOLEAN }

\* the answers the vault gives under an environment
EnvSendOutcomes(e) ==
    IF e.inputs = "commands"
    THEN { o \in SendOutcomes :
            \/ o.kind = "transport_error"
            \/ o.status \in {200, 404} /\ o.retry_after = None /\ o.parse_ok }
    ELSE SendOutcomes

\* s.parse::<u64>().ok() on the header values of RetryAfterHeaders
ParseU64(str) == IF str = "5" THEN Some(5) ELSE None

\* .get(RETRY_AFTER).and_then(|h| h.to_str().ok()).and_then(|s| s.parse::<u64>().ok())
RetryAfterOf(out) ==
    IF IsSome(out.retry_after) THEN ParseU64(Unwrap(out.retry_after)) ELSE None

\* resp.json().await.unwrap_or_else(|_| serde_json::json!({}))
BodyOf(out, url, srv) ==
    IF ~out.parse_ok THEN EmptyBody
    ELSE IF out.status = 200
         THEN (IF url \in DOMAIN srv THEN srv[url] ELSE EmptyBody)
         ELSE ErrorBody(out.status)

----------------------------------------------------------------------------
(* AzureClient::request_json *)

is_success(status) == status >= 200 /\ status <= 299
is_server_error(status) == status >= 500 /\ status <= 599

Min(a, b) == IF a <= b THEN a ELSE b

\* ExponentialBackoff growing by one second per retry
ExponentialBackoff_Linear(attempt) == Min(attempt + 1, MaxBackoffSecs)

\* (1_u64 << attempt).min(8)
ExponentialBackoff(attempt) == Min(2 ^ attempt, MaxBackoffSecs)

\* retry_after.unwrap_or((1_u64 << attempt).min(8))
BackoffSecs_ExponentialOnly(retry_after, attempt) == ExponentialBackoff(attempt)

BackoffSecs(retry_after, attempt) ==
    IF IsSome(retry_after) THEN Unwrap(retry_after) ELSE ExponentialBackoff(attempt)

\* attempt <= MAX_RETRIES
RetriesRemain_OffByOne(attempt) == attempt <= MAX_RETRIES

\* attempt < MAX_RETRIES
RetriesRemain(attempt) == attempt < MAX_RETRIES

\* let should_retry = status.as_u16() == 429 || status.is_server_error();
should_retry_AnyError(status) == ~is_success(status)

should_retry(status) == status = 429 \/ is_server_error(status)

Hint(status) ==
    CASE status = 401 -> "Your session may have expired. Try signing in again."
      [] status = 403 -> "You don't have permission. Check your Azure RBAC role or access policy."
      [] status = 404 -> "The resource was not found. It may have been deleted."
      [] status = 429 -> "Too many requests. The app applied retry with backoff."
      [] OTHER -> ""

Ok(body) == [ok |-> TRUE, kind |-> "ok", status |-> 0, code |-> "", hint |-> "", body |-> body]
Err(kind, status, code, hint) ==
    [ok |-> FALSE, kind |-> kind, status |-> status, code |-> code, hint |-> hint,
     body |-> EmptyBody]
NoResult == Err("none", 0, "", "")
\* Err("Blocked outbound request to non-Azure endpoint.")
BlockedError == Err("blocked", 0, "", "")
\* Err(format!("Network error: {}", err))
NetworkError == Err("network", 0, "", "")

\* AzureClient::parse_error
parse_error(body, status) ==
    Err("http", status,
        IF IsSome(body.error) THEN Unwrap(body.error) ELSE "UnknownError",
        Hint(status))

NoOutcome == [kind |-> "none", status |-> 0, retry_after |-> None]

HttpIdle ==
    [mode |-> "idle", pc |-> "idle", url |-> <<>>, attempt |-> 0, sends |-> 0,
     waits |-> <<>>, last |-> NoOutcome, garbled |-> FALSE, result |-> NoResult,
     reqs |-> <<>>, wire |-> {}, items |-> <<>>, beyond |-> FALSE,
     listed |-> [ok |-> FALSE, items |-> <<>>, err |-> NoResult]]
UrlIdle ==
    [kind |-> "none", scheme |-> "", labels |-> <<>>, url |-> <<>>, checked |-> FALSE,
     allowed |-> FALSE]

\* request_json is entered: the allowlist gate, then attempt = 0
RequestJsonBegin_NoGate(hh, url) ==
    [hh EXCEPT !.url = url, !.attempt = 0, !.sends = 0, !.waits = <<>>,
               !.last = NoOutcome, !.reqs = Append(@, url),
               !.pc = "loop", !.result = NoResult]

RequestJsonBegin(hh, url) ==
    LET entered == [hh EXCEPT !.url = url, !.attempt = 0, !.sends = 0, !.waits = <<>>,
                              !.last = NoOutcome, !.reqs = Append(@, url)]
    IN  IF ~is_allowed_azure_url(url)
        THEN [entered EXCEPT !.pc = "returned", !.result = BlockedError]
        ELSE [entered EXCEPT !.pc = "loop", !.result = NoResult]

\* RequestJsonAttempt reporting, when the last attempt fails in transport, the
\* error of the response an earlier attempt received
RequestJsonAttempt_KeepEarlierError(hh, out, srv) ==
    LET sent == [hh EXCEPT !.sends = @ + 1,
                           !.wire = @ \cup {hh.url},
                           !.last = [kind |-> out.kind, status |-> out.status,
                                     retry_after |-> out.retry_after]]
        retried(secs) == [sent EXCEPT !.waits = Append(@, secs), !.attempt = @ + 1]
    IN  IF out.kind = "response"
        THEN LET body == BodyOf(out, hh.url, srv)
                 parsed == [sent EXCEPT !.garbled = @ \/ ~out.parse_ok]
             IN  IF is_success(out.status)
                 THEN [parsed EXCEPT !.pc = "returned", !.result = Ok(body)]
                 ELSE IF should_retry(out.status) /\ RetriesRemain(hh.attempt)
                 THEN retried(BackoffSecs(RetryAfterOf(out), hh.attempt))
                 ELSE [sent EXCEPT !.pc = "returned",
                                   !.result = parse_error(body, out.status)]
        ELSE IF RetriesRemain(hh.attempt)
             THEN retried(ExponentialBackoff(hh.attempt))
             ELSE [sent EXCEPT !.pc = "returned",
                               !.result = IF hh.last.kind = "response"
                                          THEN parse_error(ErrorBody(hh.last.status),
                                                           hh.last.status)
                                          ELSE NetworkError]

\* one turn of the loop: send, classify the outcome, sleep before a retry
RequestJsonAttempt(hh, out, srv) ==
    LET sent == [hh EXCEPT !.sends = @ + 1,
                           !.wire = @ \cup {hh.url},
                           !.last = [kind |-> out.kind, status |-> out.status,
                                     retry_after |-> out.retry_after]]
        retried(secs) == [sent EXCEPT !.waits = Append(@, secs), !.attempt = @ + 1]
    IN  IF out.kind = "response"
        THEN LET body == BodyOf(out, hh.url, srv)
                 parsed == [sent EXCEPT !.garbled = @ \/ ~out.parse_ok]
             IN  IF is_success(out.status)
                 THEN [parsed EXCEPT !.pc = "returned", !.result = Ok(body)]
                 ELSE IF should_retry(out.status) /\ RetriesRemain(hh.attempt)
                 THEN retried(BackoffSecs(RetryAfterOf(out), hh.attempt))
                 ELSE [sent EXCEPT !.pc = "returned",
                                   !.result = parse_error(body, out.status)]
        ELSE IF RetriesRemain(hh.attempt)
             THEN retried(ExponentialBackoff(hh.attempt))
             ELSE [sent EXCEPT !.pc = "returned", !.result = NetworkError]

----------------------------------------------------------------------------
(* AuditLogger (audit/mod.rs) *)

\* const MAX_ENTRIES: usize = 1000
MAX_ENTRIES == 1000
\* const MAX_DETAIL_LEN: usize = 512
MAX_DETAIL_LEN == 512

\* a details string is a sequence of words; the words a test or a command
\* writes in upper or mixed case, lowered
ToLower(word) ==
    CASE word = "REDACTED" -> "redacted"
      [] word = "TOKEN" -> "token"
      [] word = "Secret" -> "secret"
      [] word = "Password" -> "password"
      [] OTHER -> word
SensitiveKeywords ==
    {"secret", "token", "password", "access_key", "connection_string", "credential",
     "private_key", "bearer"}
Redacted == <<"[", "REDACTED", "]">>

\* AuditLogger::sanitize_details
sanitize_details(details) ==
    IF \E i \in 1..Len(details) : ToLower(details[i]) \in SensitiveKeywords
    THEN Redacted
    ELSE SubSeq(details, 1, Min(Len(details), MAX_DETAIL_LEN))

\* models::AuditEntry; serial numbers the pushes (it stands for the position
\* of the entry's timestamp among all entries ever written)
AuditEntry(serial, vault_name, action, item_type, item_name, result, details) ==
    [serial |-> serial, vault_name |-> vault_name, action |-> action,
     item_type |-> item_type, item_name |-> item_name, result |-> result,
     details |-> IF IsSome(details) THEN Some(sanitize_details(Unwrap(details))) ELSE None]

\* AuditLogger::new over the entries found on disk; pushed counts the entries
\* ever pushed, cleared is the value of pushed at the last clear(), calls counts
\* the calls of log_action and clear
AuditLoggerNew(loaded) ==
    [entries |-> loaded, pushed |-> Len(loaded), cleared |-> 0, calls |-> 0]

\* EnforceBound cutting the tail instead of the head
EnforceBound_KeepOldest(entries) ==
    IF Len(entries) > MAX_ENTRIES THEN SubSeq(entries, 1, MAX_ENTRIES) ELSE entries

\* if entries.len() > MAX_ENTRIES { entries.drain(0..entries.len() - MAX_ENTRIES); }
EnforceBound(entries) ==
    IF Len(entries) > MAX_ENTRIES
    THEN SubSeq(entries, Len(entries) - MAX_ENTRIES + 1, Len(entries))
    ELSE entries

\* AuditLogger::log_action: push, enforce the bound, save
log_action(log, vault_name, action, item_type, item_name, result, details) ==
    [log EXCEPT
        !.entries = EnforceBound(Append(@, AuditEntry(log.pushed + 1, vault_name, action,
                                                      item_type, item_name, result, details))),
        !.pushed = @ + 1,
        !.calls = @ + 1]

\* AuditLogger::clear
clear(log) == [log EXCEPT !.entries = <<>>, !.cleared = log.pushed, !.calls = @ + 1]

\* the frame of a caller that runs no command
NoFrame ==
    [name |-> "none", stage |-> "none", vault_uri |-> <<>>, item |-> "", value |-> "",
     done |-> FALSE, ok |-> FALSE, val |-> <<>>]

AppIdle ==
    /\ audit = AuditLoggerNew(<<>>)
    /\ cmd = [p \in Procs |-> NoFrame]

----------------------------------------------------------------------------
(* AzureClient::list_secrets *)

\* AzureClient::extract_name_from_id on the id split at '/'
RECURSIVE ExtractFrom(_, _, _)
ExtractFrom(parts, entity, i) ==
    IF i > Len(parts) THEN (IF Len(parts) = 0 THEN "" ELSE parts[Len(parts)])
    ELSE IF parts[i] = entity
         THEN (IF i + 1 <= Len(parts) THEN parts[i + 1] ELSE "")
         ELSE ExtractFrom(parts, entity, i + 1)
extract_name_from_id(parts, entity) == ExtractFrom(parts, entity, 1)

\* AzureClient::parse_secret_item, reduced to id and name
parse_secret_item(v) == [id |-> v.id, name |-> extract_name_from_id(v.id, "secrets")]

RECURSIVE MapParse(_)
MapParse(values) ==
    IF values = <<>> THEN <<>>
    ELSE <<parse_secret_item(Head(values))>> \o MapParse(Tail(values))

RECURSIVE WithoutDuplicates(_, _)
WithoutDuplicates(seen, new) ==
    IF new = <<>> THEN seen
    ELSE IF \E i \in 1..Len(seen) : seen[i] = Head(new)
         THEN WithoutDuplicates(seen, Tail(new))
         ELSE WithoutDuplicates(Append(seen, Head(new)), Tail(new))

\* PushItems skipping the items already collected
PushItems_Dedup(items, body) ==
    IF IsSome(body.value) THEN WithoutDuplicates(items, MapParse(Unwrap(body.value)))
    ELSE items

\* if let Some(values) = body["value"].as_array() { for value in values { items.push(..) } }
PushItems(items, body) ==
    IF IsSome(body.value) THEN items \o MapParse(Unwrap(body.value)) ELSE items

\* ListAfterRequest following nextLink without the allowlist gate
ListAfterRequest_GateFirstPageOnly(hh) ==
    IF hh.pc # "returned" THEN hh
    ELSE IF ~hh.result.ok
    THEN [hh EXCEPT !.pc = "done",
                    !.listed = [ok |-> FALSE, items |-> <<>>, err |-> hh.result]]
    ELSE LET body == hh.result.body
             items == PushItems(hh.items, body)
             next_url == body.nextLink
         IN  IF ~IsSome(next_url)
             THEN [hh EXCEPT !.pc = "done", !.items = items,
                             !.listed = [ok |-> TRUE, items |-> items, err |-> NoResult]]
             ELSE LET full == Len(hh.reqs) >= MaxRequests
                      begun == RequestJsonBegin_NoGate(
                                   IF full THEN hh ELSE [hh EXCEPT !.items = items],
                                   Unwrap(next_url))
                  IN  IF full
                      THEN [begun EXCEPT !.reqs = hh.reqs, !.beyond = TRUE]
                      ELSE begun

\* ListAfterRequest returning, when a page fails, the items collected so far
ListAfterRequest_PartialOnError(hh) ==
    IF hh.pc # "returned" THEN hh
    ELSE IF ~hh.result.ok
    THEN [hh EXCEPT !.pc = "done",
                    !.listed = [ok |-> hh.items # <<>>, items |-> hh.items,
                                err |-> hh.result]]
    ELSE LET body == hh.result.body
             items == PushItems(hh.items, body)
             next_url == body.nextLink
         IN  IF ~IsSome(next_url)
             THEN [hh EXCEPT !.pc = "done", !.items = items,
                             !.listed = [ok |-> TRUE, items |-> items, err |-> NoResult]]
             ELSE LET full == Len(hh.reqs) >= MaxRequests
                      begun == RequestJsonBegin(
                                   IF full THEN hh ELSE [hh EXCEPT !.items = items],
                                   Unwrap(next_url))
                      entered == IF full
                                 THEN [begun EXCEPT !.reqs = hh.reqs, !.beyond = TRUE]
                                 ELSE begun
                  IN  IF entered.pc = "loop" THEN entered
                      ELSE [entered EXCEPT
                              !.pc = "done",
                              !.listed = [ok |-> hh.items # <<>>, items |-> hh.items,
                                          err |-> entered.result]]

\* the body of the while-let loop once request_json has returned, and the
\* entry into request_json for the next page.  The program follows nextLink
\* without any limit; the record kept of it is finite: from the page number
\* MaxRequests on, reqs and items stop growing and beyond is set.
ListAfterRequest(hh) ==
    IF hh.pc # "returned" THEN hh
    ELSE IF ~hh.result.ok
    THEN [hh EXCEPT !.pc = "done",
                    !.listed = [ok |-> FALSE, items |-> <<>>, err |-> hh.result]]
    ELSE LET body == hh.result.body
             items == PushItems(hh.items, body)
             next_url == body.nextLink
         IN  IF ~IsSome(next_url)
             THEN [hh EXCEPT !.pc = "done", !.items = items,
                             !.listed = [ok |-> TRUE, items |-> items, err |-> NoResult]]
             ELSE LET full == Len(hh.reqs) >= MaxRequests
                      begun == RequestJsonBegin(
                                   IF full THEN hh ELSE [hh EXCEPT !.items = items],
                                   Unwrap(next_url))
                      entered == IF full
                                 THEN [begun EXCEPT !.reqs = hh.reqs, !.beyond = TRUE]
                                 ELSE begun
                  IN  IF entered.pc = "loop" THEN entered
                      ELSE [entered EXCEPT
                              !.pc = "done",
                              !.listed = [ok |-> FALSE, items |-> <<>>,
                                          err |-> entered.result]]

\* request_json has returned to a direct caller
SingleAfterRequest(hh) == IF hh.pc = "returned" THEN [hh EXCEPT !.pc = "done"] ELSE hh

AfterRequest(hh) ==
    IF hh.mode = "list" THEN ListAfterRequest(hh) ELSE SingleAfterRequest(hh)

RequestUrls == PageUrls \cup {ManagementUrl, LookalikeUrl, PlainHttpUrl, NotAUrl, <<>>}
VaultUriInputs == {VaultUri, RenderUrl("http", <<"evil", "vault", "azure", "net">>, <<>>)}

\* a caller invokes request_json(GET, url, token, None)
StartRequest(url) ==
    /\ h.pc \in {"idle", "done"}
    /\ h' = AfterRequest(RequestJsonBegin([HttpIdle EXCEPT !.mode = "single"], url))
    /\ UNCHANGED <<server, u, authVars, appVars>>

\* a caller invokes list_secrets(token, vault_uri)
StartList(vault_uri) ==
    /\ h.pc \in {"idle", "done"}
    /\ h' = AfterRequest(RequestJsonBegin([HttpIdle EXCEPT !.mode = "list"],
                                          SecretsUrl(vault_uri)))
    /\ UNCHANGED <<server, u, authVars, appVars>>

\* the pending send of request_json resolves
Attempt ==
    /\ h.pc = "loop"
    /\ \E out \in EnvSendOutcomes(env) : h' = AfterRequest(RequestJsonAttempt(h, out, server))
    /\ UNCHANGED <<server, u, authVars, appVars>>

AuthIdle ==
    /\ env = [callers |-> {}, inputs |-> "none", history |-> FALSE]
    /\ hist = NoHist
    /\ keyring = None
    /\ tenant_id = DefaultTenant
    /\ tenant_lock = "free"
    /\ token_cache = TokenCacheNew
    /\ now = 0
    /\ pc = [p \in Procs |-> "off"]
    /\ loc = [p \in Procs |-> NoLoc]
    /\ ret = [p \in Procs |-> NoRet]
    /\ trace = [p \in Procs |-> <<>>]
    /\ cache_lock = {}

InitHttp ==
    /\ AuthIdle
    /\ AppIdle
    /\ h = HttpIdle
    /\ server = OnePageServer
    /\ u = UrlIdle

NextHttp ==
    \/ \E url \in RequestUrls : StartRequest(url)
    \/ Attempt

SpecHttp == InitHttp /\ [][NextHttp]_vars

InitList ==
    /\ AuthIdle
    /\ AppIdle
    /\ h = HttpIdle
    /\ server \in Servers
    /\ u = UrlIdle

NextList ==
    \/ \E vault_uri \in VaultUriInputs : StartList(vault_uri)
    \/ Attempt

SpecList == InitList /\ [][NextList]_vars

\* the runtime keeps polling the future of a pending send until it resolves
\* (with a response or with a transport error)
SpecListFair == InitList /\ [][NextList]_vars /\ WF_vars(Attempt)

----------------------------------------------------------------------------
(* is_allowed_azure_url on its own *)

LabelSeqs == UNION {[1..n -> Labels] : n \in 1..MaxLabels}
UrlPaths == {<<>>, <<"/", "secrets">>, <<"/", "evil", ".", "vault", ".", "azure", ".", "net">>}

UrlInput(scheme, ls, path) ==
    [kind |-> "url", scheme |-> scheme, labels |-> ls, url |-> RenderUrl(scheme, ls, path),
     checked |-> FALSE, allowed |-> FALSE]
Garbage(str) ==
    [kind |-> "garbage", scheme |-> "", labels |-> <<>>, url |-> str,
     checked |-> FALSE, allowed |-> FALSE]

\* the URLs of the unit tests of azure/mod.rs, and two more lookalikes
TestUrlInputs ==
    { UrlInput("https", <<"management", "azure", "com">>, <<"/", "subscriptions">>),
      UrlInput("https", <<"my-vault", "vault", "azure", "net">>, <<"/", "secrets", "/", "test">>),
      UrlInput("https", <<"my-vault", "vault", "usgovcloudapi", "net">>, <<"/", "keys">>),
      UrlInput("https", <<"my-vault", "vault", "azure", "cn">>, <<"/", "certificates">>),
      UrlInput("https", <<"evil", "example", "com">>, <<"/", "data">>),
      UrlInput("http", <<"management", "azure", "com">>, <<"/", "subscriptions">>),
      UrlInput("https", <<"vault", "azure", "net", "evil", "com">>, <<"/", "secrets">>),
      UrlInput("https", <<"my-vault", "vault", "azure", "net", "evil", "com">>, <<>>),
      UrlInput("https", <<"vault", "azure", "net", "attacker", "test">>, <<>>),
      Garbage(<<"not a url">>),
      Garbage(<<>>) }

UrlInputs ==
    TestUrlInputs \cup
    { UrlInput(scheme, ls, path) :
        scheme \in {"https", "http"}, ls \in LabelSeqs, path \in UrlPaths }

CheckUrl ==
    /\ ~u.checked
    /\ u' = [u EXCEPT !.checked = TRUE, !.allowed = is_allowed_azure_url(u.url)]
    /\ UNCHANGED <<h, server, authVars, appVars>>

InitUrl ==
    /\ AuthIdle
    /\ AppIdle
    /\ h = HttpIdle
    /\ server = OnePageServer
    /\ u \in UrlInputs

NextUrl == CheckUrl

SpecUrl == InitUrl /\ [][NextUrl]_vars

----------------------------------------------------------------------------
(* AuditLogger on its own *)

\* the entries the logger finds on disk when it starts: what an earlier run
\* saved, i.e. at most MAX_ENTRIES of them
LoadedLengths == {0, 1, MAX_ENTRIES - 2, MAX_ENTRIES - 1, MAX_ENTRIES}
Loaded(n) ==
    [i \in 1..n |-> AuditEntry(i, "vault", "test_action", "secret", "item", "success", None)]

\* what the callers of log_action pass
AuditInputs ==
    { [action |-> "test_action", result |-> "success", details |-> None],
      [action |-> "get_secret_value", result |-> "error",
       details |-> Some(<<"My", "Secret", "Value">>)] }

LogAction(in) ==
    /\ audit.calls < MaxCalls
    /\ audit' = log_action(audit, "vault", in.action, "secret", "item", in.result, in.details)
    /\ UNCHANGED <<h, server, u, authVars, cmd>>

Clear ==
    /\ audit.calls < MaxCalls
    /\ audit' = clear(audit)
    /\ UNCHANGED <<h, server, u, authVars, cmd>>

InitAuditLog ==
    /\ AuthIdle
    /\ h = HttpIdle
    /\ server = OnePageServer
    /\ u = UrlIdle
    /\ cmd = [p \in Procs |-> NoFrame]
    /\ \E n \in LoadedLengths : audit = AuditLoggerNew(Loaded(n))

NextAuditLog ==
    \/ \E in \in AuditInputs : LogAction(in)
    \/ Clear

SpecAuditLog == InitAuditLog /\ [][NextAuditLog]_vars

----------------------------------------------------------------------------
(* AuthManager::new *)

AuthManagerNewCache(persisted) ==
    IF IsSome(persisted)
    THEN [TokenCacheNew EXCEPT
            !.management_token =
                Some(Stored(TokenResponse("", Some(Unwrap(persisted).refresh_token), 0))),
            !.management_expires_at = Some(0)]
    ELSE TokenCacheNew

\* AuthManagerNewTenant ignoring the persisted tenant
AuthManagerNewTenant_Default(persisted) == DefaultTenant

AuthManagerNewTenant(persisted) ==
    IF IsSome(persisted) THEN Unwrap(persisted).tenant_id ELSE DefaultTenant

\* what the keyring entry can hold when the application starts
PersistedInputs ==
    {None, Some(UnreadablePayload)}
    \cup {Some(PersistedSession(t, r)) : t \in TenantInputs, r \in RefreshTokens}

\* the environment of SpecCmd: one front end invoking commands
CmdEnv == [callers |-> {"p1"}, inputs |-> "commands", history |-> FALSE]

\* the secret the vault of SpecCmd holds
SecretName == <<"d", "b", "-", "1">>
SecretText == "hunter2"
SecretUrl(vault_uri, name) == vault_uri \o <<"/", "secrets", "/">> \o name \o <<"?api-version=7.5">>
CmdServer ==
    [x \in PageUrls \cup {SecretUrl(VaultUri, SecretName)} |->
        IF x \in PageUrls THEN OnePageServer[x] ELSE Body(Some(SecretText), None, None)]
EnvServer(e) == IF e.inputs = "commands" THEN CmdServer ELSE OnePageServer

\* what the keyring entry holds at the start under an environment
EnvPersisted(e) ==
    IF e.inputs \in {"concurrent", "tenants"}
    THEN {None, Some(PersistedSession(DefaultTenant, "rt1"))}
    ELSE PersistedInputs

\* the environment of Spec: one caller at a time, every input
SeqEnv == [callers |-> {"p1"}, inputs |-> "all", history |-> FALSE]
\* the environment of SpecAudit: one caller at a time, hostile tenant inputs,
\* history kept
AuditEnv == [callers |-> {"p1"}, inputs |-> "hostile", history |-> TRUE]

InitAuth(e) ==
    /\ env = e
    /\ hist = NoHist
    /\ keyring \in EnvPersisted(e)
    /\ tenant_id = AuthManagerNewTenant(load_session(keyring))
    /\ tenant_lock = "free"
    /\ token_cache = AuthManagerNewCache(load_session(keyring))
    /\ now = 0
    /\ pc = [p \in Procs |-> IF p \in e.callers THEN "idle" ELSE "off"]
    /\ loc = [p \in Procs |-> NoLoc]
    /\ ret = [p \in Procs |-> NoRet]
    /\ trace = [p \in Procs |-> <<>>]
    /\ cache_lock = {}
    /\ h = HttpIdle
    /\ server = EnvServer(e)
    /\ u = UrlIdle
    /\ AppIdle

Init == InitAuth(SeqEnv)

\* the application is started again between two calls: a fresh AuthManager
\* is constructed from what the keyring holds
AuthManagerNew ==
    /\ \A p \in Procs : pc[p] \in {"idle", "off"}
    /\ tenant_id' = AuthManagerNewTenant(load_session(keyring))
    /\ token_cache' = AuthManagerNewCache(load_session(keyring))
    /\ loc' = [p \in Procs |-> NoLoc]
    /\ ret' = [p \in Procs |-> IF pc[p] = "idle"
                                THEN [NoRet EXCEPT !.op = "new"] ELSE NoRet]
    /\ trace' = [p \in Procs |-> <<>>]
    /\ Remember([hist EXCEPT !.swallowed = [p \in Procs |-> <<>>], !.overtaken = {}])
    /\ UNCHANGED <<tenant_lock, keyring, now, pc, env, h, server, u, cache_lock, appVars>>

----------------------------------------------------------------------------
(* AuthManager::get_management_token / get_vault_token *)

\* let now = Self::epoch_now();
CallGetToken(p, aud) ==
    /\ pc[p] = "idle"
    /\ pc' = [pc EXCEPT ![p] = "gt_cache"]
    /\ loc' = [loc EXCEPT ![p] = [NoLoc EXCEPT !.op = "get_token", !.aud = aud, !.now = now]]
    /\ ret' = [ret EXCEPT ![p] = NoRet]
    /\ trace' = [trace EXCEPT ![p] = <<>>]
    /\ ForgetSwallowed(p)
    /\ UNCHANGED <<tenant_id, tenant_lock, token_cache, keyring, now, env, h, server, u, cache_lock, appVars>>

\* first block: serve the cached access token while it is usable
GtCache(p) ==
    /\ pc[p] = "gt_cache"
    /\ CacheReadable
    /\ LET aud == loc[p].aud
           token == CachedToken(token_cache, aud)
           expires == CachedExpiry(token_cache, aud)
       IN  IF IsUsable(token, expires, loc[p].now)
           THEN /\ Return(p, "get_token", aud, TRUE, Unwrap(token).access_token)
                /\ trace' = [trace EXCEPT ![p] = Append(@, CacheHitEvent)]
           ELSE /\ pc' = [pc EXCEPT ![p] = "gt_refresh"]
                /\ UNCHANGED <<loc, ret, trace>>
    /\ UNCHANGED <<tenant_id, tenant_lock, token_cache, keyring, now, env, hist, h, server, u, cache_lock, appVars>>

\* CliFallback handing the error of the CLI to the caller
CliFallback_LeakReason(p, out, tr, hh) ==
    LET r == AzCliToken(out)
    IN  /\ trace' = [trace EXCEPT ![p] = Append(tr, CliEvent)]
        /\ Remember([hh EXCEPT !.swallowed[p] = IF r.ok THEN @ ELSE Append(@, r.val)])
        /\ Return(p, "get_token", loc[p].aud, r.ok, r.val)

\* get_az_cli_token(resource) and the end of get_*_token; hh is the history
\* up to the invocation, the error of the CLI is dropped with the others
CliFallback(p, out, tr, hh) ==
    LET r == AzCliToken(out)
    IN  /\ trace' = [trace EXCEPT ![p] = Append(tr, CliEvent)]
        /\ Remember([hh EXCEPT !.swallowed[p] = IF r.ok THEN @ ELSE Append(@, r.val)])
        /\ IF r.ok
           THEN Return(p, "get_token", loc[p].aud, TRUE, r.val)
           ELSE Return(p, "get_token", loc[p].aud, FALSE, NotAuthenticated)

\* second block: take a read guard and look for a refresh token on the
\* management entry; the guard is dropped before refresh_token is awaited,
\* or goes out of scope with the block
GtRefresh(p) ==
    /\ pc[p] = "gt_refresh"
    /\ CacheReadable
    /\ LET refresh == KnownRefresh(token_cache)
           guard == <<p, "read">>
       IN  IF IsSome(refresh)
           THEN /\ pc' = [pc EXCEPT ![p] = "rt_send"]
                /\ loc' = [loc EXCEPT ![p].refresh = Unwrap(refresh)]
                /\ cache_lock' = DropGuard(cache_lock \cup {guard}, guard)
                /\ UNCHANGED <<ret, trace, hist>>
           ELSE /\ cache_lock' = Released(cache_lock \cup {guard}, p)
                /\ \E out \in EnvCliOutcomes(env) : CliFallback(p, out, trace[p], hist)
    /\ UNCHANGED <<tenant_id, tenant_lock, token_cache, keyring, now, env, h, server, u, appVars>>

----------------------------------------------------------------------------
(* AuthManager::refresh_token *)

\* read the tenant, build the URL and send the refresh grant
RtSend(p) ==
    /\ pc[p] = "rt_send"
    /\ TenantReadable(p)
    /\ pc' = [pc EXCEPT ![p] = "rt_wait"]
    /\ loc' = [loc EXCEPT ![p].tenant = tenant_id]
    /\ trace' = [trace EXCEPT ![p] =
                    Append(@, RefreshEvent)]
    /\ UNCHANGED <<tenant_id, tenant_lock, token_cache, keyring, now, ret, env, hist, h, server, u, cache_lock, appVars>>

\* the Err(..) of refresh_token for a response that is not a token body
RefreshError(out) ==
    CASE out.kind = "network_error" -> "Network error"
      [] out.kind = "parse_error" -> "Parse error"
      [] OTHER -> "Token refresh failed"

\* the response arrives; on a token body: now = epoch_now(), tenant re-read
RtRecv(p) ==
    /\ pc[p] = "rt_wait"
    /\ \E out \in MintedFor(env, loc[p].tenant) :
        IF out.kind = "token_body"
        THEN /\ TenantReadable(p)
             /\ pc' = [pc EXCEPT ![p] = "rt_write"]
             /\ loc' = [loc EXCEPT ![p].token = Some(TokenFromBody(out)),
                                   ![p].now = now,
                                   ![p].tenant = tenant_id]
             /\ UNCHANGED <<ret, trace, hist, cache_lock>>
        ELSE LET hh == [hist EXCEPT
                          !.failed = IF out.kind = "error_body"
                                     THEN @ \cup {loc[p].refresh} ELSE @,
                          !.swallowed[p] = Append(@, RefreshError(out))]
             IN  /\ cache_lock' = Released(cache_lock, p)
                 /\ \E cli \in EnvCliOutcomes(env) : CliFallback(p, cli, trace[p], hh)
    /\ UNCHANGED <<tenant_id, tenant_lock, token_cache, keyring, now, env, h, server, u, appVars>>

\* RefreshedCache keeping the refresh token the management entry had
RefreshedCache_KeepOldRefresh(cache, is_management, token, n) ==
    IF is_management
    THEN [cache EXCEPT !.management_expires_at = Some(n + token.expires_in),
                       !.management_token =
                            Some([Stored(token) EXCEPT !.refresh_token = KnownRefresh(cache)])]
    ELSE [cache EXCEPT !.vault_expires_at = Some(n + token.expires_in),
                       !.vault_token = Some(Stored(token))]

\* RefreshedCache handing a rotated refresh token to the management entry
\* whichever audience was refreshed
RefreshedCache_SharedRefresh(cache, is_management, token, n) ==
    IF is_management
    THEN [cache EXCEPT !.management_expires_at = Some(n + token.expires_in),
                       !.management_token = Some(Stored(token))]
    ELSE [cache EXCEPT !.vault_expires_at = Some(n + token.expires_in),
                       !.vault_token = Some(Stored(token)),
                       !.management_token =
                            IF IsSome(@) /\ IsSome(token.refresh_token)
                            THEN Some([Unwrap(@) EXCEPT !.refresh_token = token.refresh_token])
                            ELSE @]

\* RefreshedCache never moving the expiry of an entry backwards
RefreshedCache_KeepLaterExpiry(cache, is_management, token, n) ==
    LET later(old) == IF IsSome(old) /\ Unwrap(old) > n + token.expires_in
                      THEN old ELSE Some(n + token.expires_in)
    IN  IF is_management
        THEN [cache EXCEPT !.management_expires_at = later(@),
                           !.management_token = Some(Stored(token))]
        ELSE [cache EXCEPT !.vault_expires_at = later(@),
                           !.vault_token = Some(Stored(token))]

\* the cache entry after refresh_token stored the token
RefreshedCache(cache, is_management, token, n) ==
    IF is_management
    THEN [cache EXCEPT !.management_expires_at = Some(n + token.expires_in),
                       !.management_token = Some(Stored(token))]
    ELSE [cache EXCEPT !.vault_expires_at = Some(n + token.expires_in),
                       !.vault_token = Some(Stored(token))]

\* take the cache write lock, store the token, persist a rotated refresh token
RtWrite(p) ==
    /\ pc[p] = "rt_write"
    /\ CacheWritable
    /\ LET token == Unwrap(loc[p].token)
           is_management == loc[p].aud = "management"
           saves == is_management /\ IsSome(token.refresh_token)
       IN  /\ token_cache' = RefreshedCache(token_cache, is_management, token, loc[p].now)
           /\ keyring' = IF saves
                         THEN save_session(loc[p].tenant, Unwrap(token.refresh_token))
                         ELSE keyring
           /\ trace' = [trace EXCEPT ![p] =
                          IF saves THEN @ \o <<CacheWriteEvent, SessionSaveEvent>>
                                   ELSE Append(@, CacheWriteEvent)]
           /\ Return(p, "get_token", loc[p].aud, TRUE, token.access_token)
    /\ UNCHANGED <<tenant_id, tenant_lock, now, env, hist, h, server, u, cache_lock, appVars>>

----------------------------------------------------------------------------
(* AuthManager::set_tenant *)

\* let mut tid = self.tenant_id.write().await; *tid = tenant_id.to_string();
SetTenantLock(p, t) ==
    /\ pc[p] = "idle"
    /\ tenant_lock = "free"
    /\ tenant_lock' = p
    /\ tenant_id' = t
    /\ pc' = [pc EXCEPT ![p] = "st_cache"]
    /\ loc' = [loc EXCEPT ![p] = [NoLoc EXCEPT !.op = "set_tenant", !.arg = t]]
    /\ ret' = [ret EXCEPT ![p] = NoRet]
    /\ trace' = [trace EXCEPT ![p] = <<>>]
    /\ ForgetSwallowed(p)
    /\ UNCHANGED <<token_cache, keyring, now, env, h, server, u, cache_lock, appVars>>

\* SetTenantCacheValue resetting the management entry only
SetTenantCacheValue_KeepVault(cache) ==
    LET refresh == KnownRefresh(cache)
    IN  [cache EXCEPT
            !.management_token =
                IF IsSome(refresh) THEN Some(Stored(TokenResponse("", refresh, 0))) ELSE None,
            !.management_expires_at = None]

\* the cache after set_tenant: everything dropped but the refresh token
SetTenantCacheValue(cache) ==
    LET refresh == KnownRefresh(cache)
    IN  IF IsSome(refresh)
        THEN [TokenCacheNew EXCEPT
                !.management_token = Some(Stored(TokenResponse("", refresh, 0)))]
        ELSE TokenCacheNew

\* take the cache write lock, reset the cache, re-persist or clear the session
SetTenantCache(p) ==
    /\ pc[p] = "st_cache"
    /\ CacheWritable
    /\ LET refresh == KnownRefresh(token_cache)
       IN  /\ token_cache' = SetTenantCacheValue(token_cache)
           /\ keyring' = IF IsSome(refresh)
                         THEN save_session(loc[p].arg, Unwrap(refresh))
                         ELSE clear_session
           /\ trace' = [trace EXCEPT ![p] =
                          IF IsSome(refresh)
                          THEN <<CacheWriteEvent, SessionSaveEvent>>
                          ELSE <<CacheWriteEvent, SessionClearEvent>>]
    /\ tenant_lock' = "free"
    /\ Return(p, "set_tenant", loc[p].arg, TRUE, "")
    /\ UNCHANGED <<tenant_id, now, env, hist, h, server, u, cache_lock, appVars>>

----------------------------------------------------------------------------
(* AuthManager::sign_out *)

\* SignOut carrying the refresh token over, as set_tenant does
SignOut_KeepRefresh(p) ==
    /\ pc[p] = "idle"
    /\ CacheWritable
    /\ token_cache' = SetTenantCacheValue(token_cache)
    /\ keyring' = clear_session
    /\ trace' = [trace EXCEPT ![p] = <<CacheWriteEvent, SessionClearEvent>>]
    /\ Return(p, "sign_out", "none", TRUE, "")
    /\ RememberSignOut(p)
    /\ UNCHANGED <<tenant_id, tenant_lock, now, env, h, server, u, cache_lock, appVars>>

SignOut(p) ==
    /\ pc[p] = "idle"
    /\ CacheWritable
    /\ token_cache' = TokenCacheNew
    /\ keyring' = clear_session
    /\ trace' = [trace EXCEPT ![p] = <<CacheWriteEvent, SessionClearEvent>>]
    /\ Return(p, "sign_out", "none", TRUE, "")
    /\ RememberSignOut(p)
    /\ UNCHANGED <<tenant_id, tenant_lock, now, env, h, server, u, cache_lock, appVars>>

----------------------------------------------------------------------------
(* AuthManager::start_device_code_flow *)

\* what the identity endpoint can answer to a POST .../oauth2/v2.0/devicecode
DeviceCodeOutcomes == {"network_error", "error_body", "device_code_body"}

\* the Result of start_device_code_flow for each answer
DeviceCodeResult(out) ==
    CASE out = "network_error" -> [ok |-> FALSE, val |-> "Network error"]
      [] out = "error_body" -> [ok |-> FALSE, val |-> "Auth error"]
      [] OTHER -> [ok |-> TRUE, val |-> "device_code"]

\* read the tenant, build the URL and send the device-code request
DeviceCodeSend(p) ==
    /\ pc[p] = "idle"
    /\ TenantReadable(p)
    /\ pc' = [pc EXCEPT ![p] = "dc_wait"]
    /\ loc' = [loc EXCEPT ![p] = [NoLoc EXCEPT !.op = "start_device_code_flow",
                                               !.tenant = tenant_id]]
    /\ ret' = [ret EXCEPT ![p] = NoRet]
    /\ trace' = [trace EXCEPT ![p] = <<DeviceCodeEvent>>]
    /\ ForgetSwallowed(p)
    /\ UNCHANGED <<tenant_id, tenant_lock, token_cache, keyring, now, env, h, server, u, cache_lock, appVars>>

\* the response arrives: the device code or the error goes to the caller
DeviceCodeRecv(p) ==
    /\ pc[p] = "dc_wait"
    /\ \E out \in DeviceCodeOutcomes :
        Return(p, "start_device_code_flow", "management",
               DeviceCodeResult(out).ok, DeviceCodeResult(out).val)
    /\ UNCHANGED <<tenant_id, tenant_lock, token_cache, keyring, now, trace, env, hist, h, server, u, cache_lock, appVars>>

----------------------------------------------------------------------------
(* AuthManager::poll_device_code *)

PollSend(p) ==
    /\ pc[p] = "idle"
    /\ TenantReadable(p)
    /\ pc' = [pc EXCEPT ![p] = "pd_wait"]
    /\ loc' = [loc EXCEPT ![p] = [NoLoc EXCEPT !.op = "poll_device_code",
                                               !.tenant = tenant_id]]
    /\ ret' = [ret EXCEPT ![p] = NoRet]
    /\ trace' = [trace EXCEPT ![p] = <<PollEvent>>]
    /\ ForgetSwallowed(p)
    /\ UNCHANGED <<tenant_id, tenant_lock, token_cache, keyring, now, env, h, server, u, cache_lock, appVars>>

\* what the token endpoint answered, as recorded in trace
ResponseEvent(out) == IF out.kind = "error_body" THEN out.error ELSE out.kind

\* PollError treating authorization_pending as any other provider error
PollError_PendingIsFatal(out) ==
    CASE out.kind = "network_error" -> "Network error"
      [] out.kind = "parse_error" -> "Parse error"
      [] out.kind = "error_body" /\ out.error = "slow_down" -> "slow_down"
      [] OTHER -> "Auth error"

\* the Err(..) of poll_device_code for a response that is not a token body
PollError(out) ==
    CASE out.kind = "network_error" -> "Network error"
      [] out.kind = "parse_error" -> "Parse error"
      [] out.kind = "error_body" /\ out.error = "authorization_pending" -> "authorization_pending"
      [] out.kind = "error_body" /\ out.error = "slow_down" -> "slow_down"
      [] OTHER -> "Auth error"

PollRecv(p) ==
    /\ pc[p] = "pd_wait"
    /\ \E out \in MintedFor(env, loc[p].tenant) :
        IF out.kind = "token_body"
        THEN /\ TenantReadable(p)
             /\ pc' = [pc EXCEPT ![p] = "pd_write"]
             /\ loc' = [loc EXCEPT ![p].token = Some(TokenFromBody(out)),
                                   ![p].now = now,
                                   ![p].tenant = tenant_id]
             /\ UNCHANGED <<ret, trace>>
        ELSE /\ Return(p, "poll_device_code", "management", FALSE, PollError(out))
             /\ trace' = [trace EXCEPT ![p] = Append(@, ResponseEvent(out))]
    /\ UNCHANGED <<tenant_id, tenant_lock, token_cache, keyring, now, env, hist, h, server, u, cache_lock, appVars>>

\* PollWrite storing expires_in as if it were the absolute expiry
PollWrite_RelativeExpiry(p) ==
    /\ pc[p] = "pd_write"
    /\ CacheWritable
    /\ LET token == Unwrap(loc[p].token)
           saves == IsSome(token.refresh_token)
       IN  /\ token_cache' = [token_cache EXCEPT
                                !.management_expires_at = Some(token.expires_in),
                                !.management_token = Some(Stored(token))]
           /\ keyring' = IF saves
                         THEN save_session(loc[p].tenant, Unwrap(token.refresh_token))
                         ELSE keyring
           /\ trace' = [trace EXCEPT ![p] =
                          IF saves THEN @ \o <<CacheWriteEvent, SessionSaveEvent>>
                                   ELSE Append(@, CacheWriteEvent)]
           /\ Return(p, "poll_device_code", "management", TRUE, token.access_token)
    /\ UNCHANGED <<tenant_id, tenant_lock, now, env, hist, h, server, u, cache_lock, appVars>>

\* take the cache write lock, store the token, persist the session
PollWrite(p) ==
    /\ pc[p] = "pd_write"
    /\ CacheWritable
    /\ LET token == Unwrap(loc[p].token)
           saves == IsSome(token.refresh_token)
       IN  /\ token_cache' = [token_cache EXCEPT
                                !.management_expires_at = Some(loc[p].now + token.expires_in),
                                !.management_token = Some(Stored(token))]
           /\ keyring' = IF saves
                         THEN save_session(loc[p].tenant, Unwrap(token.refresh_token))
                         ELSE keyring
           /\ trace' = [trace EXCEPT ![p] =
                          IF saves THEN @ \o <<CacheWriteEvent, SessionSaveEvent>>
                                   ELSE Append(@, CacheWriteEvent)]
           /\ Return(p, "poll_device_code", "management", TRUE, token.access_token)
    /\ UNCHANGED <<tenant_id, tenant_lock, now, env, hist, h, server, u, cache_lock, appVars>>

----------------------------------------------------------------------------
(* The clock *)

Tick ==
    /\ now < EnvMaxNow(env)
    /\ now' = now + 60
    /\ UNCHANGED <<tenant_id, tenant_lock, token_cache, keyring, pc, loc, ret, trace, env, hist, h, server, u, cache_lock, appVars>>

----------------------------------------------------------------------------
Next ==
    \/ \E p \in Procs, aud \in Audiences : CallGetToken(p, aud)
    \/ \E p \in Procs : GtCache(p)
    \/ \E p \in Procs : GtRefresh(p)
    \/ \E p \in Procs : RtSend(p)
    \/ \E p \in Procs : RtRecv(p)
    \/ \E p \in Procs : RtWrite(p)
    \/ \E p \in Procs, t \in EnvTenants(env) : SetTenantLock(p, t)
    \/ \E p \in Procs : SetTenantCache(p)
    \/ \E p \in Procs : SignOut(p)
    \/ \E p \in Procs : PollSend(p)
    \/ \E p \in Procs : PollRecv(p)
    \/ \E p \in Procs : PollWrite(p)
    \/ AuthManagerNew
    \/ Tick

Spec == Init /\ [][Next]_vars

\* the environment of SpecConc: two callers whose calls interleave
ConcEnv == [callers |-> {"p1", "p2"}, inputs |-> "concurrent", history |-> TRUE]
InitConc == InitAuth(ConcEnv)
NextConc ==
    \/ \E p \in Procs, aud \in Audiences : CallGetToken(p, aud)
    \/ \E p \in Procs : GtCache(p)
    \/ \E p \in Procs : GtRefresh(p)
    \/ \E p \in Procs : RtSend(p)
    \/ \E p \in Procs : RtRecv(p)
    \/ \E p \in Procs : RtWrite(p)
    \/ \E p \in Procs, t \in EnvTenants(env) : SetTenantLock(p, t)
    \/ \E p \in Procs : SetTenantCache(p)
    \/ \E p \in Procs : SignOut(p)
    \/ \E p \in Procs : PollSend(p)
    \/ \E p \in Procs : PollRecv(p)
    \/ \E p \in Procs : PollWrite(p)
    \/ \E p \in Procs : DeviceCodeSend(p)
    \/ \E p \in Procs : DeviceCodeRecv(p)
    \/ Tick
SpecConc == InitConc /\ [][NextConc]_vars

\* the environment of SpecTenant: two callers whose calls interleave, the
\* clock standing still, the identity endpoint minting one token per tenant
TenantEnv == [callers |-> {"p1", "p2"}, inputs |-> "tenants", history |-> FALSE]
InitTenant == InitAuth(TenantEnv)
NextTenant ==
    \/ \E p \in Procs, aud \in Audiences : CallGetToken(p, aud)
    \/ \E p \in Procs : GtCache(p)
    \/ \E p \in Procs : GtRefresh(p)
    \/ \E p \in Procs : RtSend(p)
    \/ \E p \in Procs : RtRecv(p)
    \/ \E p \in Procs : RtWrite(p)
    \/ \E p \in Procs, t \in EnvTenants(env) : SetTenantLock(p, t)
    \/ \E p \in Procs : SetTenantCache(p)
    \/ \E p \in Procs : SignOut(p)
    \/ \E p \in Procs : PollSend(p)
    \/ \E p \in Procs : PollRecv(p)
    \/ \E p \in Procs : PollWrite(p)
    \/ \E p \in Procs : DeviceCodeSend(p)
    \/ \E p \in Procs : DeviceCodeRecv(p)
SpecTenant == InitTenant /\ [][NextTenant]_vars

\* a step of the call caller p has in progress
Proceed(p) ==
    \/ GtCache(p)
    \/ GtRefresh(p)
    \/ RtSend(p)
    \/ RtRecv(p)
    \/ RtWrite(p)
    \/ SetTenantCache(p)
    \/ PollRecv(p)
    \/ PollWrite(p)
    \/ DeviceCodeRecv(p)

\* the same, the runtime polling every call in progress: a call waiting for
\* a lock gets it once it is free (the locks queue their waiters), and every
\* request to the identity endpoint resolves
SpecTenantFair == SpecTenant /\ \A p \in Procs : SF_vars(Proceed(p))

\* the same manager and callers under the audit environment
InitAudit == InitAuth(AuditEnv)
SpecAudit == InitAudit /\ [][Next]_vars

----------------------------------------------------------------------------
(* Tauri commands (commands/mod.rs).  A string the commands inspect by      *)
(* character (item name, secret value) is the sequence of its characters.   *)

ListCommands == {"list_secrets", "list_keys", "list_certificates"}
NamedCommands ==
    {"get_secret_value", "get_secret_metadata", "set_secret", "delete_secret",
     "recover_secret", "purge_secret"}
VaultCommands == ListCommands \cup NamedCommands
AuthCommands == {"auth_status", "auth_sign_out"}

AsciiAlphanumeric ==
    {"a", "b", "c", "d", "e", "f", "g", "h", "i", "j", "k", "l", "m", "n", "o", "p", "q",
     "r", "s", "t", "u", "v", "w", "x", "y", "z",
     "A", "B", "C", "D", "E", "F", "G", "H", "I", "J", "K", "L", "M", "N", "O", "P", "Q",
     "R", "S", "T", "U", "V", "W", "X", "Y", "Z",
     "0", "1", "2", "3", "4", "5", "6", "7", "8", "9"}

CmdOk == [ok |-> TRUE, err |-> ""]
CmdErr(msg) == [ok |-> FALSE, err |-> msg]

\* validate_vault_uri with contains in place of ends_with
validate_vault_uri_HostContains(vault_uri) ==
    LET parsed == ParseUrl(vault_uri)
    IN  IF ~parsed.ok THEN CmdErr("Invalid vault URI.")
        ELSE IF parsed.scheme # "https" THEN CmdErr("Vault URI must use HTTPS.")
        ELSE IF parsed.host = <<>> THEN CmdErr("Vault URI must include a host.")
        ELSE IF ~\E suffix \in VaultSuffixes : ContainsStr(parsed.host, suffix)
        THEN CmdErr("Vault URI must target an Azure Key Vault endpoint.")
        ELSE CmdOk

\* validate_vault_uri
validate_vault_uri(vault_uri) ==
    LET parsed == ParseUrl(vault_uri)
    IN  IF ~parsed.ok THEN CmdErr("Invalid vault URI.")
        ELSE IF parsed.scheme # "https" THEN CmdErr("Vault URI must use HTTPS.")
        ELSE IF parsed.host = <<>> THEN CmdErr("Vault URI must include a host.")
        ELSE IF ~\E suffix \in VaultSuffixes : EndsWith(parsed.host, suffix)
        THEN CmdErr("Vault URI must target an Azure Key Vault endpoint.")
        ELSE CmdOk

\* validate_item_name
validate_item_name(name) ==
    IF Len(name) = 0 \/ Len(name) > 127
    THEN CmdErr("Item name must be between 1 and 127 characters.")
    ELSE IF ~\A i \in 1..Len(name) : name[i] \in AsciiAlphanumeric \cup {"-"}
    THEN CmdErr("Item name may only contain letters, numbers, and hyphens.")
    ELSE CmdOk

\* set_secret: request.value.is_empty() || request.value.len() > 25_000
validate_value(value) ==
    IF Len(value) = 0 \/ Len(value) > 25000
    THEN CmdErr("Secret value must be between 1 and 25,000 characters.")
    ELSE CmdOk

\* the checks a command makes before its first await, in their order
Validate(name, vault_uri, item, value) ==
    IF name \notin VaultCommands THEN CmdOk
    ELSE IF ~validate_vault_uri(vault_uri).ok THEN validate_vault_uri(vault_uri)
    ELSE IF name \in NamedCommands /\ ~validate_item_name(item).ok
    THEN validate_item_name(item)
    ELSE IF name = "set_secret" THEN validate_value(value)
    ELSE CmdOk

\* extract_vault_name: trim_start_matches("https://").split('.').next()
extract_vault_name(vault_uri) ==
    LET rest == IF Len(vault_uri) >= 2 /\ vault_uri[1] = "https" /\ vault_uri[2] = "://"
                THEN SubSeq(vault_uri, 3, Len(vault_uri))
                ELSE vault_uri
    IN  IF rest = <<>> THEN "" ELSE rest[1]

\* result_status
result_status(result) == IF result.ok THEN "success" ELSE "error"

\* the URL each AzureClient method builds
CommandUrl(name, vault_uri, item) ==
    CASE name = "list_secrets" -> SecretsUrl(vault_uri)
      [] name = "list_keys" -> vault_uri \o <<"/", "keys?api-version=7.5">>
      [] name = "list_certificates" -> vault_uri \o <<"/", "certificates?api-version=7.5">>
      [] name = "get_secret_metadata" ->
            vault_uri \o <<"/", "secrets", "/">> \o item
                      \o <<"/", "versions?api-version=7.5&maxresults=1">>
      [] name = "recover_secret" ->
            vault_uri \o <<"/", "deletedsecrets", "/">> \o item
                      \o <<"/", "recover?api-version=7.5">>
      [] name = "purge_secret" ->
            vault_uri \o <<"/", "deletedsecrets", "/">> \o item \o <<"?api-version=7.5">>
      [] OTHER -> SecretUrl(vault_uri, item)

\* the audience of the token a command asks for
CommandAudience(name) == IF name \in VaultCommands THEN "vault" ELSE "management"

\* the item type and item name a command writes into the audit log
AuditItemType(name) ==
    CASE name = "list_keys" -> "key"
      [] name = "list_certificates" -> "certificate"
      [] OTHER -> "secret"
AuditItemName(name, item) == IF name \in ListCommands THEN <<"*">> ELSE item

\* AuditDetails writing the value the vault returned into the entry
AuditDetails_WithValue(name, result) ==
    CASE name = "get_secret_value" ->
            Some(<<"value", "retrieved", ":">> \o
                 (IF result.ok THEN <<result.val.value>> ELSE <<>>))
      [] name = "set_secret" -> Some(<<"[", "value", "set", "-", "REDACTED", "]">>)
      [] OTHER -> None

\* the details a command passes to log_action
AuditDetails(name, result) ==
    CASE name = "get_secret_value" ->
            Some(<<"[", "value", "retrieved", "-", "REDACTED", "]">>)
      [] name = "set_secret" -> Some(<<"[", "value", "set", "-", "REDACTED", "]">>)
      [] OTHER -> None

\* what the AzureClient method returns once request_json (or the listing
\* loop) is over; the items of set/delete/recover/purge are reduced to Ok(())
CommandResult(name, item, hh) ==
    CASE name \in ListCommands ->
            IF hh.listed.ok THEN [ok |-> TRUE, val |-> hh.listed.items]
            ELSE [ok |-> FALSE, val |-> hh.listed.err]
      [] ~hh.result.ok -> [ok |-> FALSE, val |-> hh.result]
      [] name = "get_secret_value" ->
            \* value: body["value"].as_str().unwrap_or_default()
            [ok |-> TRUE,
             val |-> [value |-> IF IsSome(hh.result.body.value)
                                THEN Unwrap(hh.result.body.value) ELSE "",
                      name |-> item]]
      [] name = "get_secret_metadata" ->
            \* body["value"].as_array().and_then(|arr| arr.first())
            IF IsSome(hh.result.body.value) /\ Len(Unwrap(hh.result.body.value)) > 0
            THEN [ok |-> TRUE, val |-> parse_secret_item(Head(Unwrap(hh.result.body.value)))]
            ELSE [ok |-> FALSE, val |-> "Secret metadata not found"]
      [] OTHER -> [ok |-> TRUE, val |-> <<>>]

\* AuthManager::is_signed_in looking at the token only
is_signed_in_TokenOnly(token_ok, kr) == token_ok

\* AuthManager::is_signed_in once get_management_token has returned
is_signed_in(token_ok, kr) == token_ok \/ IsSome(load_session(kr))

\* models::AuthState as auth_status builds it
AuthState(signed_in, tenant) ==
    [signed_in |-> signed_in, tenant_id |-> IF signed_in THEN Some(tenant) ELSE None]


----------------------------------------------------------------------------
(* Properties of get_management_token / get_vault_token and set_tenant *)

Last(seq) == seq[Len(seq)]
Contains(seq, e) == \E i \in 1..Len(seq) : seq[i] = e

\* the cache entry of an audience is Valid at instant n: a non-empty access
\* token and n < expires_at - 60
EntryValid(cache, aud, n) ==
    LET token == IF aud = "management" THEN cache.management_token ELSE cache.vault_token
        expires == IF aud = "management" THEN cache.management_expires_at
                   ELSE cache.vault_expires_at
    IN  /\ token # <<>>
        /\ expires # <<>>
        /\ token[1].access_token # ""
        /\ n < expires[1] - 60

\* caller p takes the step that examines the cached entry
ChecksCache(p) == pc[p] = "gt_cache" /\ pc'[p] # "gt_cache"

\* caller p has completed a call of op
Completed(p, op) == pc[p] = "idle" /\ ret[p].op = op

----------------------------------------------------------------------------
(* The commands as actions *)

\* what the front end can pass to a command
CmdVaultUris ==
    { VaultUri,
      RenderUrl("http", <<"evil", "vault", "azure", "net">>, <<>>),
      RenderUrl("https", <<"evil", "vault", "azure", "net", "evil", "com">>, <<>>),
      RenderUrl("https", <<"management", "azure", "com">>, <<>>),
      NotAUrl }
CmdItems == {SecretName, <<"a", "/", "b">>, <<>>}
CmdValues == {<<"n", "e", "w">>, <<>>}
\* every command with every vault URI, and with every item name and value
\* on the one vault
CommandInputs ==
    { [name |-> n, vault_uri |-> <<>>, item |-> <<>>, value |-> <<>>] : n \in AuthCommands }
    \cup { [name |-> n, vault_uri |-> v, item |-> <<>>, value |-> <<>>]
            : n \in ListCommands, v \in CmdVaultUris }
    \cup { [name |-> n, vault_uri |-> v, item |-> SecretName, value |-> <<>>]
            : n \in NamedCommands \ {"set_secret"}, v \in CmdVaultUris }
    \cup { [name |-> n, vault_uri |-> VaultUri, item |-> i, value |-> <<>>]
            : n \in NamedCommands \ {"set_secret"}, i \in CmdItems }
    \cup { [name |-> "set_secret", vault_uri |-> v, item |-> SecretName, value |-> <<"n", "e", "w">>]
            : v \in CmdVaultUris }
    \cup { [name |-> "set_secret", vault_uri |-> VaultUri, item |-> i, value |-> x]
            : i \in CmdItems, x \in CmdValues }

Finished(frame, ok, val) ==
    [frame EXCEPT !.stage = "none", !.done = TRUE, !.ok = ok, !.val = val]

\* the front end invokes a command: the checks before its first await
Invoke(p, in) ==
    /\ pc[p] = "idle"
    /\ cmd[p].stage = "none"
    /\ audit.pushed < MaxAudited
    /\ LET check == Validate(in.name, in.vault_uri, in.item, in.value)
           frame == [NoFrame EXCEPT !.name = in.name, !.vault_uri = in.vault_uri,
                                    !.item = in.item, !.value = in.value]
       IN  cmd' = [cmd EXCEPT ![p] = IF check.ok
                                     THEN [frame EXCEPT !.stage = "start"]
                                     ELSE Finished(frame, FALSE, check.err)]
    /\ ret' = [ret EXCEPT ![p] = NoRet]
    /\ trace' = [trace EXCEPT ![p] = <<>>]
    /\ h' = HttpIdle
    /\ UNCHANGED <<tenant_id, tenant_lock, token_cache, keyring, now, pc, loc, env, hist,
                   server, u, cache_lock, audit>>

\* state.auth.get_vault_token() / is_signed_in -> get_management_token()
CmdGetToken(p) ==
    /\ cmd[p].stage = "start"
    /\ cmd[p].name # "auth_sign_out"
    /\ ret[p] = NoRet
    /\ CallGetToken(p, CommandAudience(cmd[p].name))

\* auth_sign_out: state.auth.sign_out().await
CmdSignOut(p) ==
    /\ cmd[p].stage = "start"
    /\ cmd[p].name = "auth_sign_out"
    /\ ret[p] = NoRet
    /\ SignOut(p)

\* auth_sign_out: the audit entry, Ok(())
AuthSignOutReturn(p) ==
    /\ cmd[p].stage = "start"
    /\ cmd[p].name = "auth_sign_out"
    /\ Completed(p, "sign_out")
    /\ audit' = log_action(audit, "system", "sign_out", "auth", <<"user">>, "success", None)
    /\ cmd' = [cmd EXCEPT ![p] = Finished(@, TRUE, <<>>)]
    /\ UNCHANGED <<h, server, u, authVars>>

\* auth_status: is_signed_in falls back on the session, then get_tenant
AuthStatusReturn(p) ==
    /\ cmd[p].stage = "start"
    /\ cmd[p].name = "auth_status"
    /\ Completed(p, "get_token")
    /\ TenantReadable(p)
    /\ cmd' = [cmd EXCEPT ![p] =
                Finished(@, TRUE, AuthState(is_signed_in(ret[p].ok, keyring), tenant_id))]
    /\ UNCHANGED <<h, server, u, authVars, audit>>

\* a vault command after get_vault_token().await?: the error is returned, or
\* the AzureClient method is entered
VaultAfterToken(p) ==
    /\ cmd[p].stage = "start"
    /\ cmd[p].name \in VaultCommands
    /\ Completed(p, "get_token")
    /\ IF ~ret[p].ok
       THEN /\ cmd' = [cmd EXCEPT ![p] = Finished(@, FALSE, ret[p].val)]
            /\ h' = h
       ELSE /\ cmd' = [cmd EXCEPT ![p].stage = "request"]
            /\ h' = AfterRequest(RequestJsonBegin(
                        [HttpIdle EXCEPT !.mode = IF cmd[p].name \in ListCommands
                                                  THEN "list" ELSE "single"],
                        CommandUrl(cmd[p].name, cmd[p].vault_uri, cmd[p].item)))
    /\ UNCHANGED <<server, u, authVars, audit>>

\* the AzureClient method has returned: the audit entry, then the result
VaultAfterRequest(p) ==
    /\ cmd[p].stage = "request"
    /\ h.pc = "done"
    /\ LET name == cmd[p].name
           result == CommandResult(name, cmd[p].item, h)
       IN  /\ audit' = log_action(audit, extract_vault_name(cmd[p].vault_uri), name,
                                  AuditItemType(name), AuditItemName(name, cmd[p].item),
                                  result_status(result), AuditDetails(name, result))
           /\ cmd' = [cmd EXCEPT ![p] = Finished(@, result.ok, result.val)]
    /\ UNCHANGED <<h, server, u, authVars>>

InitCmd == InitAuth(CmdEnv)

NextCmd ==
    \/ \E p \in Procs, in \in CommandInputs : Invoke(p, in)
    \/ \E p \in Procs : CmdGetToken(p)
    \/ \E p \in Procs : CmdSignOut(p)
    \/ \E p \in Procs : AuthSignOutReturn(p)
    \/ \E p \in Procs : AuthStatusReturn(p)
    \/ \E p \in Procs : VaultAfterToken(p)
    \/ \E p \in Procs : VaultAfterRequest(p)
    \/ \E p \in Procs : GtCache(p)
    \/ \E p \in Procs : GtRefresh(p)
    \/ \E p \in Procs : RtSend(p)
    \/ \E p \in Procs : RtRecv(p)
    \/ \E p \in Procs : RtWrite(p)
    \/ Attempt

SpecCmd == InitCmd /\ [][NextCmd]_vars

\* C1: when the cache entry of the requested audience holds a non-empty access
\* token and now < expires_at - 60, get_token returns exactly that token and
\* makes no refresh-grant call, no CLI invocation and no write to the token
\* cache or the persisted session.
C1_ValidCacheServed ==
    [][\A p \in Procs :
        (ChecksCache(p) /\ EntryValid(token_cache, loc[p].aud, loc[p].now))
        => /\ pc'[p] = "idle"
           /\ ret'[p] = [op |-> "get_token", arg |-> loc[p].aud, ok |-> TRUE,
                         val |-> CachedToken(token_cache, loc[p].aud)[1].access_token]
           /\ trace'[p] = <<CacheHitEvent>>
           /\ token_cache' = token_cache
           /\ keyring' = keyring]_vars

C1_Witness ==
    \E p \in Procs :
        /\ Completed(p, "get_token")
        /\ ret[p].arg = "vault"
        /\ ret[p].ok
        /\ trace[p] = <<CacheHitEvent>>
        /\ ret[p].val = token_cache.vault_token[1].access_token

\* C2: get_token never returns the cached access token when
\* now >= expires_at - 60 (an expires_at below 60 counts as past the margin) or
\* when the cached access token is empty or absent; the call then goes on to
\* a mint path: it completes only after a refresh-grant call or a CLI invocation.
C2_ExpiredCacheNotServed ==
    /\ [][\A p \in Procs :
            (ChecksCache(p) /\ ~EntryValid(token_cache, loc[p].aud, loc[p].now))
            => /\ pc'[p] = "gt_refresh"
               /\ ret'[p] = NoRet
               /\ trace'[p] = <<>>]_vars
    /\ [](\A p \in Procs :
            (Completed(p, "get_token") /\ ~Contains(trace[p], CacheHitEvent))
            => (Contains(trace[p], RefreshEvent) \/ Contains(trace[p], CliEvent)))

\* a non-empty cached token whose expires_at is below the margin was passed
\* over: the call went to the CLI and left the cache as it was
C2_Witness ==
    \E p \in Procs :
        /\ Completed(p, "get_token")
        /\ ret[p].arg = "management"
        /\ trace[p] = <<CliEvent>>
        /\ token_cache.management_token # <<>>
        /\ token_cache.management_token[1].access_token # ""
        /\ token_cache.management_expires_at # <<>>
        /\ token_cache.management_expires_at[1] < 60

\* the refresh token attached to the management cache entry, if any
ManagementRefresh(cache) ==
    IF cache.management_token = <<>> THEN <<>>
    ELSE cache.management_token[1].refresh_token

\* the sequences of effects one get_token call can have had so far
GetTokenTraces ==
    { <<>>, <<CacheHitEvent>>, <<CliEvent>>, <<RefreshEvent>>,
      <<RefreshEvent, CliEvent>>, <<RefreshEvent, CacheWriteEvent>>,
      <<RefreshEvent, CacheWriteEvent, SessionSaveEvent>> }

Appends(p, e) == Len(trace'[p]) > Len(trace[p]) /\ trace'[p][Len(trace[p]) + 1] = e

\* C3: within one get_token call the paths are tried in the order cache,
\* refresh grant, CLI, authentication error: a refresh grant is sent only if
\* the entry was not Valid and the management entry holds a refresh token; the
\* CLI is invoked only if no refresh token is known or the refresh grant did
\* not succeed; the authentication error is returned only after the CLI failed.
C3_MintPathOrder ==
    /\ [](\A p \in Procs :
            (pc[p] \in {"gt_cache", "gt_refresh", "rt_send", "rt_wait", "rt_write"}
             \/ Completed(p, "get_token"))
            => /\ trace[p] \in GetTokenTraces
               /\ (Completed(p, "get_token") /\ ~ret[p].ok)
                    => /\ ret[p].val = NotAuthenticated
                       /\ Last(trace[p]) = CliEvent)
    /\ [][\A p \in Procs :
            /\ Appends(p, RefreshEvent)
                => /\ trace[p] = <<>>
                   /\ ~EntryValid(token_cache, loc[p].aud, loc[p].now)
                   /\ ManagementRefresh(token_cache) = <<loc[p].refresh>>
            /\ Appends(p, CliEvent)
                => \/ /\ trace[p] = <<>>
                      /\ pc[p] = "gt_refresh"
                      /\ ManagementRefresh(token_cache) = <<>>
                   \/ /\ trace[p] = <<RefreshEvent>>
                      /\ pc[p] = "rt_wait"]_vars

\* a call that went through every path: refresh grant, CLI, error
C3_Witness ==
    \E p \in Procs :
        /\ Completed(p, "get_token")
        /\ ~ret[p].ok
        /\ trace[p] = <<RefreshEvent, CliEvent>>

\* C10: when set_tenant(t) returns, the tenant preference is t, the vault
\* entry is Empty, the management access token is not served from the cache,
\* and if the management entry held a refresh token R then it still holds R
\* and the persisted session is {t, R}; otherwise no persisted session exists.
C10_SetTenantEffect ==
    [][\A p \in Procs :
        (pc[p] = "st_cache" /\ pc'[p] = "idle")
        => LET t == loc[p].arg
               R == ManagementRefresh(token_cache)
           IN  /\ tenant_id' = t
               /\ token_cache'.vault_token = <<>>
               /\ token_cache'.vault_expires_at = <<>>
               /\ \A n \in 0..EnvMaxNow(env) : ~EntryValid(token_cache', "management", n)
               /\ R # <<>> => /\ ManagementRefresh(token_cache') = R
                              /\ keyring' = <<[tenant_id |-> t, refresh_token |-> R[1]]>>
               /\ R = <<>> => keyring' = <<>>]_vars

\* set_tenant returned after carrying a refresh token over to another tenant
C10_Witness ==
    \E p \in Procs :
        /\ Completed(p, "set_tenant")
        /\ trace[p] = <<CacheWriteEvent, SessionSaveEvent>>
        /\ tenant_id = ret[p].arg
        /\ tenant_id # DefaultTenant
        /\ keyring # <<>>
        /\ keyring[1].tenant_id = tenant_id
        /\ ManagementRefresh(token_cache) = <<keyring[1].refresh_token>>

----------------------------------------------------------------------------
(* Properties of is_allowed_azure_url, request_json and list_secrets *)

\* C4: request_json on a URL the allowlist gate rejects returns the Blocked
\* error with no send, no backoff wait and no retry; nothing is ever sent to
\* a destination the gate rejects.
C4_BlockedWithoutIO ==
    /\ (h.mode = "single" /\ h.pc = "done" /\ ~is_allowed_azure_url(h.url))
        => /\ h.result = BlockedError
           /\ h.sends = 0
           /\ h.attempt = 0
           /\ h.waits = <<>>
    /\ \A x \in h.wire : is_allowed_azure_url(x)

C4_Witness ==
    /\ h.mode = "single"
    /\ h.pc = "done"
    /\ h.url = LookalikeUrl
    /\ h.result = BlockedError
    /\ h.sends = 0

\* the labels of the host names the allowlist admits by suffix
AllowedSuffixLabels ==
    { <<"vault", "azure", "net">>, <<"vault", "usgovcloudapi", "net">>,
      <<"vault", "azure", "cn">> }

\* C5: is_allowed_azure_url(url) is true iff the URL parses, its scheme is
\* https and its host is management.azure.com or ends with .vault.azure.net,
\* .vault.usgovcloudapi.net or .vault.azure.cn; lookalike hosts, http URLs,
\* unparsable strings and the empty string are rejected.
C5_AllowlistExact ==
    u.checked =>
        (u.allowed <=>
            /\ u.kind = "url"
            /\ u.scheme = "https"
            /\ \/ u.labels = <<"management", "azure", "com">>
               \/ /\ Len(u.labels) > 3
                  /\ SubSeq(u.labels, Len(u.labels) - 2, Len(u.labels)) \in AllowedSuffixLabels)

\* the lookalike my-vault.vault.azure.net.evil.com has been rejected
C5_Witness ==
    /\ u.checked
    /\ ~u.allowed
    /\ u.scheme = "https"
    /\ u.labels = <<"my-vault", "vault", "azure", "net", "evil", "com">>

\* C6: whatever mixture of transport failures and 429/5xx responses occurs,
\* one request_json call makes at most 4 send attempts, all counted by the one
\* attempt counter, and has returned once the 4th was made.
C6_AtMostFourSends ==
    /\ h.sends <= 4
    /\ h.pc = "loop" => h.sends = h.attempt
    /\ h.sends = 4 => h.pc = "done"

\* four sends: a transport failure, a 429 with Retry-After, then failures
C6_Witness ==
    /\ h.pc = "done"
    /\ h.sends = 4
    /\ h.waits = <<1, 5, 4>>
    /\ h.last.kind = "transport_error"
    /\ h.result = NetworkError

\* C7: after a 429 or 5xx response with an integer Retry-After header, when
\* retries remain, the wait before the next attempt is the header value;
\* otherwise (no such header, or a transport failure) it is min(2^k, 8) for
\* retry k; no wait follows the final attempt.
C7_RetryAfterHonoured ==
    /\ Len(h.waits) = h.attempt
    /\ h.pc = "done" => h.sends <= Len(h.waits) + 1
    /\ (h.pc = "loop" /\ h.attempt > 0)
        => LET k == h.attempt - 1
               exponential == IF 2 ^ k < 8 THEN 2 ^ k ELSE 8
           IN  IF h.last.kind = "response" /\ h.last.retry_after = <<"5">>
               THEN h.waits[h.attempt] = 5
               ELSE h.waits[h.attempt] = exponential

\* the second retry waits the 5 seconds of the header, not 2
C7_Witness ==
    /\ h.pc = "loop"
    /\ h.attempt = 2
    /\ h.last.kind = "response"
    /\ h.last.status = 429
    /\ h.last.retry_after = <<"5">>
    /\ h.waits[2] = 5

\* C8: a response whose status is neither success nor 429 nor 5xx ends
\* request_json on that attempt, whatever the attempt number: an error is
\* returned, with no backoff wait and no further send.
C8_TerminalStatus ==
    (/\ h.mode = "single"
     /\ h.last.kind = "response"
     /\ ~(h.last.status >= 200 /\ h.last.status <= 299)
     /\ h.last.status # 429
     /\ ~(h.last.status >= 500 /\ h.last.status <= 599))
    => /\ h.pc = "done"
       /\ ~h.result.ok
       /\ h.result.kind = "http"
       /\ h.result.status = h.last.status
       /\ Len(h.waits) = h.sends - 1

\* a 404 on the third attempt ended the call
C8_Witness ==
    /\ h.mode = "single"
    /\ h.pc = "done"
    /\ h.last.status = 404
    /\ h.sends = 3
    /\ Len(h.waits) = 2

\* the pages reached from url by following nextLink, at most fuel of them
RECURSIVE Chain(_, _, _)
Chain(srv, url, fuel) ==
    IF fuel = 0 \/ url \notin DOMAIN srv
    THEN [closed |-> FALSE, urls |-> <<>>, ids |-> <<>>]
    ELSE LET page == srv[url]
             ids == IF page.value = <<>> THEN <<>>
                    ELSE [i \in 1..Len(page.value[1]) |-> page.value[1][i].id]
         IN  IF page.nextLink = <<>>
             THEN [closed |-> TRUE, urls |-> <<url>>, ids |-> ids]
             ELSE LET rest == Chain(srv, page.nextLink[1], fuel - 1)
                  IN  [closed |-> rest.closed, urls |-> <<url>> \o rest.urls,
                       ids |-> ids \o rest.ids]

\* C9: a listing that succeeds over a chain of n pages (each response being
\* the page the server holds) has issued exactly n requests, in sequence, each
\* URL taken from the previous page's nextLink, and returns the concatenation
\* of the pages' items in server order, nothing dropped, duplicated or reordered.
C9_PaginationFlattens ==
    (h.mode = "list" /\ h.pc = "done" /\ h.listed.ok /\ ~h.garbled)
    => LET c == Chain(server, h.reqs[1], MaxRequests)
       IN  /\ c.closed
           /\ h.reqs = c.urls
           /\ h.wire = {c.urls[i] : i \in 1..Len(c.urls)}
           /\ [i \in 1..Len(h.listed.items) |-> h.listed.items[i].id] = c.ids

\* three pages, each with the same two items, listed as six items
C9_Witness ==
    /\ h.mode = "list"
    /\ h.pc = "done"
    /\ h.listed.ok
    /\ ~h.garbled
    /\ h.reqs = <<SecretsUrl(VaultUri), Page1Url, Page2Url>>
    /\ Len(h.listed.items) = 6
    /\ h.listed.items[3].name = "s2"

----------------------------------------------------------------------------
(* Properties of sign_out, poll_device_code and AuthManager::new *)

\* both cache entries Empty, no refresh token held, no persisted session
SignedOut ==
    /\ token_cache = [management_token |-> <<>>, vault_token |-> <<>>,
                      management_expires_at |-> <<>>, vault_expires_at |-> <<>>]
    /\ keyring = <<>>

\* C11: when sign_out has returned, both cache entries are Empty, no refresh
\* token is held and no persisted session exists; a get_token that runs in
\* that situation finds nothing in the cache, sends no refresh grant, and
\* returns either the token of the CLI or the not-authenticated error.
C11_SignOutClears ==
    /\ [](\A p \in Procs : Completed(p, "sign_out") => SignedOut)
    /\ [][\A p \in Procs :
            (SignedOut /\ pc[p] \in {"gt_cache", "gt_refresh"} /\ pc'[p] # pc[p])
            => \/ /\ pc[p] = "gt_cache"
                  /\ pc'[p] = "gt_refresh"
                  /\ trace'[p] = <<>>
               \/ /\ pc[p] = "gt_refresh"
                  /\ pc'[p] = "idle"
                  /\ trace'[p] = <<CliEvent>>
                  /\ \/ /\ ret'[p].ok
                        /\ \E out \in CliOutcomes :
                            out.kind = "token" /\ ret'[p].val = out.accessToken
                     \/ /\ ~ret'[p].ok
                        /\ ret'[p].val = NotAuthenticated]_vars

\* sign_out returned under a tenant other than the default one: the session
\* that named the tenant is gone
C11_Witness ==
    \E p \in Procs :
        /\ Completed(p, "sign_out")
        /\ trace[p] = <<CacheWriteEvent, SessionClearEvent>>
        /\ SignedOut
        /\ tenant_id # DefaultTenant

\* the provider errors that mean: poll again
PollAgainSignals == {"authorization_pending", "slow_down"}
\* the error codes the token endpoint can put in an error body
ProviderErrors == {o.error : o \in {x \in TokenEndpointOutcomes : x.kind = "error_body"}}

\* C12: poll_device_code answers authorization_pending and slow_down each
\* with its own poll-again signal and every other provider error with a fatal
\* error that is neither; whenever it returns an error the token cache, the
\* tenant preference and the persisted session are as before.
C12_PollErrors ==
    [][\A p \in Procs :
        (pc[p] = "pd_wait" /\ pc'[p] = "idle")
        => LET answer == Last(trace'[p])
           IN  /\ ~ret'[p].ok
               /\ answer \in PollAgainSignals => ret'[p].val = answer
               /\ answer \in ProviderErrors \ PollAgainSignals
                    => ret'[p].val \notin PollAgainSignals
               /\ answer \notin ProviderErrors => ret'[p].val \notin PollAgainSignals
               /\ token_cache' = token_cache
               /\ tenant_id' = tenant_id
               /\ keyring' = keyring]_vars

\* a poll answered slow_down while a session is persisted
C12_Witness ==
    \E p \in Procs :
        /\ Completed(p, "poll_device_code")
        /\ ~ret[p].ok
        /\ ret[p].val = "slow_down"
        /\ trace[p] = <<PollEvent, "slow_down">>
        /\ keyring # <<>>

\* C13: a successful poll_device_code stores the returned access token and
\* refresh token in the management entry, sets its expiry to now + expires_in
\* and, a refresh token being returned, persists the session {tenant
\* preference, returned refresh token}.
C13_PollSuccessStores ==
    [][\A p \in Procs :
        (pc[p] = "pd_write" /\ pc'[p] = "idle")
        => LET token == loc[p].token[1]
           IN  /\ ret'[p].ok
               /\ ret'[p].val = token.access_token
               /\ token_cache'.management_token =
                    <<[access_token |-> token.access_token,
                       refresh_token |-> token.refresh_token]>>
               /\ token_cache'.management_expires_at = <<loc[p].now + token.expires_in>>
               /\ token.refresh_token # <<>>
                    => keyring' = <<[tenant_id |-> tenant_id,
                                     refresh_token |-> token.refresh_token[1]]>>]_vars

\* a poll that succeeded at instant 60 under a selected tenant
C13_Witness ==
    \E p \in Procs :
        /\ Completed(p, "poll_device_code")
        /\ ret[p].ok
        /\ ret[p].val = "at1"
        /\ token_cache.management_token =
                <<[access_token |-> "at1", refresh_token |-> <<"rt2">>]>>
        /\ token_cache.management_expires_at = <<180>>
        /\ tenant_id # DefaultTenant
        /\ keyring = <<[tenant_id |-> tenant_id, refresh_token |-> "rt2"]>>

\* the keyring holds a readable session
HasSession(kr) == kr # <<>> /\ DOMAIN kr[1] = {"tenant_id", "refresh_token"}

\* the manager is as constructed from the persisted session
FreshFromSession ==
    /\ HasSession(keyring)
    /\ tenant_id = keyring[1].tenant_id
    /\ token_cache =
        [management_token |->
            <<[access_token |-> "", refresh_token |-> <<keyring[1].refresh_token>>]>>,
         vault_token |-> <<>>,
         management_expires_at |-> <<0>>,
         vault_expires_at |-> <<>>]

\* C14: a manager constructed while a session {T, R} is persisted has tenant
\* preference T and a management entry holding R with no usable access token,
\* and the first get_token for either audience sends a refresh grant with R
\* under tenant T before any CLI invocation; constructed without a readable
\* session it has the tenant preference organizations and both entries Empty.
C14_RoundTrip ==
    /\ [][AuthManagerNew
            => IF HasSession(keyring)
               THEN /\ tenant_id' = keyring[1].tenant_id
                    /\ ManagementRefresh(token_cache') = <<keyring[1].refresh_token>>
                    /\ \A n \in 0..EnvMaxNow(env) :
                            ~EntryValid(token_cache', "management", n)
                    /\ token_cache'.vault_token = <<>>
               ELSE /\ tenant_id' = DefaultTenant
                    /\ token_cache' = [management_token |-> <<>>, vault_token |-> <<>>,
                                       management_expires_at |-> <<>>,
                                       vault_expires_at |-> <<>>]]_vars
    /\ [][\A p \in Procs :
            (FreshFromSession /\ pc[p] \in {"gt_cache", "gt_refresh", "rt_send"}
                /\ pc'[p] # pc[p])
            => /\ pc[p] = "gt_cache" => (pc'[p] = "gt_refresh" /\ trace'[p] = <<>>)
               /\ pc[p] = "gt_refresh"
                    => /\ pc'[p] = "rt_send"
                       /\ loc'[p].refresh = keyring[1].refresh_token
                       /\ trace'[p] = <<>>
               /\ pc[p] = "rt_send"
                    => /\ pc'[p] = "rt_wait"
                       /\ loc'[p].refresh = keyring[1].refresh_token
                       /\ loc'[p].tenant = keyring[1].tenant_id
                       /\ trace'[p] = <<RefreshEvent>>]_vars

\* a session rotated to rt2 under a selected tenant at instant 60 was
\* read back by a newly constructed manager
C14_Witness ==
    \E p \in Procs :
        /\ ret[p].op = "new"
        /\ now = 60
        /\ FreshFromSession
        /\ tenant_id # DefaultTenant
        /\ keyring[1].refresh_token = "rt2"

----------------------------------------------------------------------------
(* Properties of set_tenant's input and of refresh_token *)

HexDigits ==
    {"0", "1", "2", "3", "4", "5", "6", "7", "8", "9", "a", "b", "c", "d", "e", "f"}

\* the characters of the tenant strings of the model
CharsOf(t) ==
    CASE t = "organizations" ->
            <<"o", "r", "g", "a", "n", "i", "z", "a", "t", "i", "o", "n", "s">>
      [] t = "72f988bf-86f1" ->
            <<"7", "2", "f", "9", "8", "8", "b", "f", "-", "8", "6", "f", "1">>
      [] t = "72f9;rm -rf /" ->
            <<"7", "2", "f", "9", ";", "r", "m", " ", "-", "r", "f", " ", "/">>

\* the sentinel, or hex digits and hyphens only
IsSanitized(t) ==
    \/ t = "organizations"
    \/ \A i \in 1..Len(CharsOf(t)) : CharsOf(t)[i] \in HexDigits \cup {"-"}

\* C15: whatever string set_tenant is given, the tenant preference, the
\* tenant put into the URL of the identity endpoint and the tenant of the
\* persisted session are the sentinel organizations or made only of hex
\* digits and hyphens.
C15_TenantSanitized ==
    /\ IsSanitized(tenant_id)
    /\ HasSession(keyring) => IsSanitized(keyring[1].tenant_id)
    /\ \A p \in Procs : pc[p] \in {"rt_wait", "pd_wait"} => IsSanitized(loc[p].tenant)

\* caller p takes the step of refresh_token that stores a token whose
\* response carried a refresh token
StoresRotated(p) ==
    /\ pc[p] = "rt_write"
    /\ pc'[p] = "idle"
    /\ loc[p].token[1].refresh_token # <<>>

\* C16 as stated: a successful refresh grant whose response carries a refresh
\* token replaces the refresh token of the persisted session and of the
\* management entry by it, whichever audience was requested.
C16_RotationAnyAudience ==
    [][\A p \in Procs :
        StoresRotated(p)
        => LET R == loc[p].token[1].refresh_token
           IN  /\ ManagementRefresh(token_cache') = R
               /\ HasSession(keyring')
               /\ keyring'[1].refresh_token = R[1]]_vars

\* C16: a successful refresh grant for the management audience whose
\* response carries a refresh token replaces the refresh token of the
\* persisted session and of the management entry by it; one for the vault
\* audience leaves the management entry and the persisted session as they were.
C16_RotationManagementOnly ==
    [][\A p \in Procs :
        StoresRotated(p)
        => LET R == loc[p].token[1].refresh_token
           IN  IF loc[p].aud = "management"
               THEN /\ ManagementRefresh(token_cache') = R
                    /\ keyring' = <<[tenant_id |-> loc[p].tenant, refresh_token |-> R[1]]>>
               ELSE /\ token_cache'.management_token = token_cache.management_token
                    /\ token_cache'.management_expires_at = token_cache.management_expires_at
                    /\ keyring' = keyring]_vars

\* a management refresh at instant 60 rotated the session to rt2
C16_Witness ==
    \E p \in Procs :
        /\ Completed(p, "get_token")
        /\ ret[p].arg = "management"
        /\ trace[p] = <<RefreshEvent, CacheWriteEvent, SessionSaveEvent>>
        /\ ManagementRefresh(token_cache) = <<"rt2">>
        /\ token_cache.management_expires_at = <<180>>
        /\ keyring = <<[tenant_id |-> tenant_id, refresh_token |-> "rt2"]>>

\* C17: once the token endpoint has answered a refresh grant carrying R with
\* an error response, no refresh grant carrying R is sent again.
C17_NoResend ==
    \A p \in Procs : pc[p] = "rt_wait" => loc[p].refresh \notin hist.failed

\* C18: after the token endpoint answered the refresh grant of a get_token
\* call with an error, no persisted session exists.
C18_SessionDeletedOnFailure ==
    \A p \in Procs :
        (Completed(p, "get_token") /\ Contains(hist.swallowed[p], "Token refresh failed"))
        => keyring = <<>>

\* C19: the vault cache entry never carries a refresh token.
C19_VaultHasNoRefresh ==
    \/ token_cache.vault_token = <<>>
    \/ token_cache.vault_token[1].refresh_token = <<>>

\* the reasons for which the refresh grant and the CLI can fail
RefreshFailures == {"Network error", "Parse error", "Token refresh failed"}
CliFailures == {"unavailable", "nonzero_exit", "bad_json", "no_access_token"}
\* the errors a failing get_token can have swallowed
FailurePaths ==
    {<<c>> : c \in CliFailures} \cup {<<r, c>> : r \in RefreshFailures, c \in CliFailures}

\* C20: get_token fails exactly when its last resort, the CLI, failed, and
\* the error it returns is then the one fixed not-authenticated message,
\* whichever errors of the refresh grant and of the CLI came before; none of
\* them is returned.
C20_GenericError ==
    \A p \in Procs :
        Completed(p, "get_token")
        => /\ ~ret[p].ok <=> hist.swallowed[p] \in FailurePaths
           /\ ~ret[p].ok => ret[p].val = NotAuthenticated

\* a call failed after a provider error on the refresh grant and a CLI that
\* printed no accessToken
C20_Witness ==
    \E p \in Procs :
        /\ Completed(p, "get_token")
        /\ ~ret[p].ok
        /\ ret[p].val = NotAuthenticated
        /\ hist.swallowed[p] = <<"Token refresh failed", "no_access_token">>

----------------------------------------------------------------------------
(* Properties of request_json and of the listings on hostile servers *)

\* C22: request_json never returns success for a response whose body could
\* not be parsed as JSON: such a response ends the call with an error.
C22_UnparsableIsError ==
    (h.mode = "single" /\ h.pc = "done" /\ h.garbled) => ~h.result.ok

\* C23: every listing terminates, with a result or with an error, whatever
\* the server answers, a nextLink leading back to a page already visited
\* included.
C23_ListingTerminates ==
    (h.mode = "list" /\ h.pc = "loop") ~> (h.pc = "done")

----------------------------------------------------------------------------
(* Properties of the audit log *)

\* C25: after any sequence of log_action and clear calls the log holds at
\* most MAX_ENTRIES entries, and they are the most recent entries pushed since
\* the last clear, in the order in which they were pushed: when the bound is
\* exceeded it is the oldest entries that are dropped.
C25_AuditBounded ==
    LET n == Len(audit.entries)
    IN  /\ n <= MAX_ENTRIES
        /\ n = Min(MAX_ENTRIES, audit.pushed - audit.cleared)
        /\ \A i \in 1..n : audit.entries[i].serial = audit.pushed - n + i

\* a full log received two more entries: the two oldest are gone
C25_Witness ==
    /\ audit.pushed = MAX_ENTRIES + 2
    /\ audit.cleared = 0
    /\ Len(audit.entries) = MAX_ENTRIES
    /\ audit.entries[1].serial = 3
    /\ audit.entries[MAX_ENTRIES].action = "get_secret_value"
    /\ audit.entries[MAX_ENTRIES].details = <<Redacted>>

----------------------------------------------------------------------------
(* Properties of the commands *)

\* C21: is_signed_in answers true exactly when the management token request
\* it made succeeded (from the cache, by a refresh grant or from the CLI) or
\* a persisted session exists; auth_status reports a tenant id if and only if
\* it reports signed_in, and it is then the tenant preference.
C21_SignedInMeaning ==
    \A p \in Procs :
        (cmd[p].done /\ cmd[p].name = "auth_status")
        => /\ ret[p].op = "get_token"
           /\ ret[p].arg = "management"
           /\ cmd[p].val.signed_in <=> (ret[p].ok \/ HasSession(keyring))
           /\ IsSome(cmd[p].val.tenant_id) <=> cmd[p].val.signed_in
           /\ cmd[p].val.signed_in => cmd[p].val.tenant_id = <<tenant_id>>

\* no token could be produced (refresh grant and CLI failed) but the session
\* is still persisted: signed in, with the tenant reported
C21_Witness ==
    \E p \in Procs :
        /\ cmd[p].done
        /\ cmd[p].name = "auth_status"
        /\ ~ret[p].ok
        /\ trace[p] = <<RefreshEvent, CliEvent>>
        /\ HasSession(keyring)
        /\ cmd[p].val = [signed_in |-> TRUE, tenant_id |-> <<"72f988bf-86f1">>]

\* C24: when auth_sign_out has returned, the tenant preference is the default
\* sentinel organizations, whatever tenant was selected before.
C24_SignOutResetsTenant ==
    \A p \in Procs :
        (cmd[p].done /\ cmd[p].name = "auth_sign_out") => tenant_id = DefaultTenant

\* a vault URI that is not https or whose host does not end with one of the
\* vault suffixes
BadVaultUri(vault_uri) ==
    LET parsed == ParseUrl(vault_uri)
    IN  \/ ~parsed.ok
        \/ parsed.scheme # "https"
        \/ ~\E suffix \in VaultSuffixes : EndsWith(parsed.host, suffix)

\* C26: a vault item command given such a vault URI returns an error before
\* any token is requested and before any request is issued: its frame is never
\* seen past the checks, the AuthManager was not called and no request_json
\* was entered.
C26_BadUriRejectedFirst ==
    \A p \in Procs :
        (cmd[p].name \in VaultCommands /\ BadVaultUri(cmd[p].vault_uri))
        => /\ cmd[p].done
           /\ cmd[p].stage = "none"
           /\ ~cmd[p].ok
           /\ pc[p] = "idle"
           /\ ret[p] = NoRet
           /\ trace[p] = <<>>
           /\ h = HttpIdle

\* get_secret_value on a lookalike of a vault host was refused
C26_Witness ==
    \E p \in Procs :
        /\ cmd[p].done
        /\ cmd[p].name = "get_secret_value"
        /\ cmd[p].vault_uri =
             RenderUrl("https", <<"evil", "vault", "azure", "net", "evil", "com">>, <<>>)
        /\ cmd[p].item = SecretName
        /\ cmd[p].val = "Vault URI must target an Azure Key Vault endpoint."
        /\ ret[p] = NoRet
        /\ h = HttpIdle

\* C27: when get_secret_value has returned after issuing the data-plane
\* request, the audit log ends with an entry for get_secret_value carrying the
\* secret's name and the outcome of the command, and no entry's details
\* contain the secret value.
C27_ValueRetrievalAudited ==
    /\ \A p \in Procs :
        (cmd[p].done /\ cmd[p].name = "get_secret_value" /\ h.sends > 0)
        => /\ audit.entries # <<>>
           /\ Last(audit.entries).action = "get_secret_value"
           /\ Last(audit.entries).item_name = cmd[p].item
           /\ Last(audit.entries).result = (IF cmd[p].ok THEN "success" ELSE "error")
    /\ \A i \in 1..Len(audit.entries) :
        IsSome(audit.entries[i].details)
        => ~Contains(Unwrap(audit.entries[i].details), SecretText)

\* the value was retrieved and the retrieval is in the log, value redacted
C27_Witness ==
    \E p \in Procs :
        /\ cmd[p].done
        /\ cmd[p].name = "get_secret_value"
        /\ cmd[p].ok
        /\ cmd[p].val.value = SecretText
        /\ h.sends = 1
        /\ Len(audit.entries) = 1
        /\ audit.entries[1].action = "get_secret_value"
        /\ audit.entries[1].item_name = SecretName
        /\ audit.entries[1].result = "success"
        /\ audit.entries[1].details = <<<<"[", "value", "retrieved", "-", "REDACTED", "]">>>>

----------------------------------------------------------------------------
(* Properties of interleaved calls *)

\* the instants the clock can show
ClockValues == {k * 60 : k \in 0..MaxTicks}

\* the entry pairs an access token of the identity endpoint with the expiry
\* computed from the response that carried it
CoherentEntry(token, expires) ==
    (IsSome(token) /\ Unwrap(token).access_token # "")
    => \E out \in ConcurrentTokenOutcomes, n \in ClockValues :
        /\ out.kind = "token_body"
        /\ Unwrap(token).access_token = Unwrap(out.access_token)
        /\ expires = Some(n + Unwrap(out.expires_in))

\* C28: there is no single-flight gate: a get_token call that found the
\* entry not Valid and finds a refresh token goes on to its own refresh
\* grant whatever the other callers do; the call that stores a token returns
\* the access token it received itself and leaves in the entry that token with
\* the expiry computed from its own response; at no time does an entry hold
\* the token of one response with the expiry of another.
C28_ConcurrentRefresh ==
    [][/\ \A p \in Procs :
            /\ (pc[p] = "gt_refresh" /\ pc'[p] # "gt_refresh"
                    /\ IsSome(KnownRefresh(token_cache)))
               => pc'[p] = "rt_send"
            /\ (pc[p] = "rt_write" /\ pc'[p] = "idle")
               => /\ ret'[p] = [op |-> "get_token", arg |-> loc[p].aud, ok |-> TRUE,
                                val |-> Unwrap(loc[p].token).access_token]
                  /\ CachedToken(token_cache', loc[p].aud) = Some(Stored(Unwrap(loc[p].token)))
                  /\ CachedExpiry(token_cache', loc[p].aud)
                        = Some(loc[p].now + Unwrap(loc[p].token).expires_in)
       /\ \A aud \in Audiences :
            CoherentEntry(CachedToken(token_cache', aud), CachedExpiry(token_cache', aud))
      ]_vars

\* both callers refreshed the vault token at instant 0: p1 stored at1 (which
\* would have been Valid for p2 had p2 looked after it), p2 stored at2 last
C28_Witness ==
    /\ now = 0
    /\ Completed("p1", "get_token")
    /\ Completed("p2", "get_token")
    /\ ret["p1"] = [op |-> "get_token", arg |-> "vault", ok |-> TRUE, val |-> "at1"]
    /\ ret["p2"] = [op |-> "get_token", arg |-> "vault", ok |-> TRUE, val |-> "at2"]
    /\ trace["p1"] = <<RefreshEvent, CacheWriteEvent>>
    /\ trace["p2"] = <<RefreshEvent, CacheWriteEvent>>
    /\ token_cache.vault_token[1].access_token = "at2"
    /\ token_cache.vault_expires_at = <<30>>

\* the callers whose request to the identity endpoint is in flight
OnTheNetwork == {p \in Procs : pc[p] \in {"rt_wait", "pd_wait", "dc_wait"}}

\* C29: while a request of a caller to the identity endpoint is in flight
\* (device-code request, poll, refresh grant) that caller holds neither the
\* tenant lock nor a guard of the cache lock, and the cache can be read.
C29_NoLockAcrossNetwork ==
    \A p \in OnTheNetwork :
        /\ tenant_lock # p
        /\ \A g \in cache_lock : g[1] # p
        /\ CacheReadable

\* p1 awaits the answer to its refresh grant while p2 is about to be served
\* a Valid management token from the cache
C29_Witness ==
    /\ pc["p1"] = "rt_wait"
    /\ pc["p2"] = "gt_cache"
    /\ loc["p2"].aud = "management"
    /\ IsUsable(token_cache.management_token, token_cache.management_expires_at,
                loc["p2"].now)
    /\ CacheReadable

\* C30: the completion of a refresh grant or poll that was awaiting its
\* response when sign_out ran leaves a signed-out manager signed out.
C30_SignOutNotUndone ==
    [][\A p \in hist.overtaken :
            (SignedOut /\ pc[p] # "idle" /\ pc'[p] = "idle") => SignedOut']_vars

----------------------------------------------------------------------------
(* Properties of the retries of request_json and of a listing that fails *)

\* C36: the allowlist gate applies to every page of a listing: when the URL
\* request_json is entered with (the first page's, or a nextLink) is rejected
\* by the gate, the listing has ended with the Blocked error and that URL was
\* never sent to; nothing is ever sent to a URL the gate rejects.
C36_GateOnEveryPage ==
    /\ (h.mode = "list" /\ h.pc # "idle" /\ ~is_allowed_azure_url(h.url))
        => /\ h.pc = "done"
           /\ ~h.listed.ok
           /\ h.listed.err = BlockedError
           /\ h.url \notin h.wire
    /\ \A x \in h.wire : is_allowed_azure_url(x)

\* the first page was fetched, its nextLink named a lookalike host
C36_Witness ==
    /\ h.mode = "list"
    /\ h.pc = "done"
    /\ h.reqs = <<SecretsUrl(VaultUri), LookalikeUrl>>
    /\ h.wire = {SecretsUrl(VaultUri)}
    /\ h.url = LookalikeUrl
    /\ h.listed.err = BlockedError

\* the send of request_json resolves in this step
Resolves == h.pc = "loop" /\ h'.sends = h.sends + 1

\* C38: in a request_json call, the wait before retry k (k = 0, 1, 2), when
\* the failed attempt carried no integer Retry-After, is min(2^k, 8), which is
\* 1, 2 and 4: the cap of 8 is not reached; no wait follows a success; a 503
\* without the header followed by a 200 ends the call after 2 sends and a
\* total wait of 1, with the body of the 200.
C38_BackoffSchedule ==
    [][(h.mode = "single" /\ Resolves) =>
        LET k == h.attempt
            waited == Len(h'.waits) = Len(h.waits) + 1
            header == h'.last.kind = "response" /\ IsSome(RetryAfterOf(h'.last))
        IN  /\ (waited /\ ~header)
                => /\ k \in {0, 1, 2}
                   /\ h'.waits[k + 1] = Min(2 ^ k, 8)
                   /\ h'.waits[k + 1] = <<1, 2, 4>>[k + 1]
                   /\ h'.waits[k + 1] < MaxBackoffSecs
            /\ (h'.last.kind = "response" /\ is_success(h'.last.status))
                => /\ h'.waits = h.waits
                   /\ h'.pc = "done"
                   /\ h'.result.ok
            /\ (/\ h.sends = 1
                /\ h.last.kind = "response"
                /\ h.last.status = 503
                /\ ~IsSome(RetryAfterOf(h.last))
                /\ h'.last.kind = "response"
                /\ h'.last.status = 200)
                => /\ h'.sends = 2
                   /\ h'.waits = <<1>>
                   /\ h'.result.ok
                   /\ (~h'.garbled /\ h.url \in DOMAIN server)
                        => h'.result.body = server[h.url]]_vars

\* three 503s without Retry-After: the waits were 1, 2 and 4
C38_Witness ==
    /\ h.mode = "single"
    /\ h.pc = "loop"
    /\ h.attempt = 3
    /\ h.waits = <<1, 2, 4>>
    /\ h.last.kind = "response"
    /\ h.last.status = 503
    /\ h.last.retry_after = None

\* C39: when the 4th attempt of a request_json call fails, the call returns
\* at once (no wait) with a result built from that attempt alone: a 429 or 5xx
\* gives the error with that response's status, code and hint; a transport
\* failure gives the network error, whatever the earlier attempts received.
C39_LastAttemptOnly ==
    [][(h.mode = "single" /\ Resolves /\ h.attempt = MAX_RETRIES
        /\ ~(h'.last.kind = "response" /\ is_success(h'.last.status)))
       => /\ h'.pc = "done"
          /\ h'.sends = 4
          /\ h'.waits = h.waits
          /\ ~h'.result.ok
          /\ IF h'.last.kind = "response"
             THEN \E parse_ok \in BOOLEAN :
                    h'.result =
                        parse_error(BodyOf([status |-> h'.last.status,
                                            parse_ok |-> parse_ok], h.url, server),
                                    h'.last.status)
             ELSE h'.result = NetworkError]_vars

\* three 503s, then the connection failed: the network error is returned
C39_Witness ==
    /\ h.mode = "single"
    /\ h.pc = "done"
    /\ h.sends = 4
    /\ h.waits = <<1, 2, 4>>
    /\ h.last.kind = "transport_error"
    /\ h.result = NetworkError

\* C40: a listing whose request for some page ends in an error returns that
\* error and none of the items of the pages before; the failed request is the
\* last one issued.
C40_AllOrNothing ==
    (h.mode = "list" /\ h.pc = "done" /\ ~h.result.ok)
    => /\ ~h.listed.ok
       /\ h.listed.items = <<>>
       /\ h.listed.err = h.result
       /\ ~h.beyond => Last(h.reqs) = h.url
       /\ h.result # BlockedError => h.last.kind # "none"

\* the first page gave two items, the second page answered 404
C40_Witness ==
    /\ h.mode = "list"
    /\ h.pc = "done"
    /\ h.reqs = <<SecretsUrl(VaultUri), Page1Url>>
    /\ Len(h.items) = 2
    /\ h.result.kind = "http"
    /\ h.result.status = 404
    /\ h.listed = [ok |-> FALSE, items |-> <<>>, err |-> h.result]

----------------------------------------------------------------------------
(* Properties of the token a successful mint stores *)

\* caller p takes the step that stores the token of a successful refresh
\* grant for audience aud
StoresRefreshed(p, aud) == pc[p] = "rt_write" /\ pc'[p] = "idle" /\ loc[p].aud = aud

\* caller p takes the step that stores the token of a successful poll
StoresPolled(p) == pc[p] = "pd_write" /\ pc'[p] = "idle"

\* C34: a successful management refresh grant or device-code poll that finds
\* a refresh token on the management entry leaves one there: the one of the
\* response if it carried one, otherwise the previous one; and the persisted
\* session then holds the same refresh token.
C34_RefreshTokenKept ==
    [][\A p \in Procs :
        ((StoresRefreshed(p, "management") \/ StoresPolled(p))
         /\ IsSome(KnownRefresh(token_cache)))
        => LET R == Unwrap(loc[p].token).refresh_token
           IN  /\ KnownRefresh(token_cache') =
                    (IF IsSome(R) THEN R ELSE KnownRefresh(token_cache))
               /\ HasSession(keyring')
               /\ Some(Unwrap(keyring').refresh_token) = KnownRefresh(token_cache')]_vars

\* C35: every successful result of get_management_token / get_vault_token is
\* a non-empty access token, and no refresh grant stores an empty access token.
C35_TokenNotEmpty ==
    /\ \A p \in Procs : (ret[p].op = "get_token" /\ ret[p].ok) => ret[p].val # ""
    /\ \A p \in Procs :
        pc[p] = "rt_write" => Unwrap(loc[p].token).access_token # ""

\* C37: the step that stores the token of a successful refresh grant for the
\* vault audience leaves the management entry (token, expiry, refresh token)
\* and the persisted session as they were and writes the vault entry; the one
\* for the management audience leaves the vault entry as it was and writes
\* the management entry.
C37_RefreshFrame ==
    [][\A p \in Procs :
        /\ StoresRefreshed(p, "vault")
            => /\ token_cache'.management_token = token_cache.management_token
               /\ token_cache'.management_expires_at = token_cache.management_expires_at
               /\ keyring' = keyring
               /\ token_cache'.vault_token = Some(Stored(Unwrap(loc[p].token)))
               /\ token_cache'.vault_expires_at =
                    Some(loc[p].now + Unwrap(loc[p].token).expires_in)
        /\ StoresRefreshed(p, "management")
            => /\ token_cache'.vault_token = token_cache.vault_token
               /\ token_cache'.vault_expires_at = token_cache.vault_expires_at
               /\ token_cache'.management_token = Some(Stored(Unwrap(loc[p].token)))
               /\ token_cache'.management_expires_at =
                    Some(loc[p].now + Unwrap(loc[p].token).expires_in)]_vars

\* a vault refresh whose response carried rt2 was stored beside a management
\* entry and a session that still hold rt1
C37_Witness ==
    \E p \in Procs :
        /\ Completed(p, "get_token")
        /\ ret[p].arg = "vault"
        /\ trace[p] = <<RefreshEvent, CacheWriteEvent>>
        /\ IsSome(token_cache.vault_token)
        /\ Unwrap(token_cache.vault_token).refresh_token = Some("rt2")
        /\ KnownRefresh(token_cache) = Some("rt1")
        /\ HasSession(keyring)
        /\ Unwrap(keyring).refresh_token = "rt1"

----------------------------------------------------------------------------
(* Properties of set_tenant interleaved with the other calls *)

\* C31: every access token served from the cache was minted for the tenant
\* that is the preference when it is served, and a refresh grant stores its
\* token only if it was minted for the tenant that is the preference then
\* (no set_tenant being under way in either case).
C31_ServedForCurrentTenant ==
    [][\A p \in Procs :
        /\ (ChecksCache(p) /\ pc'[p] = "idle" /\ tenant_lock = "free")
            => ret'[p].val = AccessTokenOf(tenant_id)
        /\ (pc[p] = "rt_write" /\ pc'[p] = "idle" /\ tenant_lock = "free")
            => Unwrap(loc[p].token).access_token = AccessTokenOf(tenant_id)]_vars

\* C32: whenever a persisted session exists and no call is in progress, its
\* tenant_id is the tenant preference.
C32_SessionTenantCurrent ==
    ((\A p \in Procs : pc[p] \in {"idle", "off"}) /\ HasSession(keyring))
    => Unwrap(keyring).tenant_id = tenant_id

\* the callers whose next step waits for the tenant lock
WaitsForTenant == {p \in Procs : pc[p] \in {"rt_send", "rt_wait", "pd_wait"}}

\* C33: no interleaving of set_tenant, sign_out, get_*_token,
\* poll_device_code and start_device_code_flow deadlocks: the tenant lock is
\* held across a step only by a set_tenant that has yet to take the cache
\* lock, no caller about to read the tenant holds a guard of the cache, and
\* every call in progress completes.
C33_EveryCallCompletes ==
    /\ [](\A p \in Procs : tenant_lock = p => pc[p] = "st_cache")
    /\ [](\A p \in WaitsForTenant : \A g \in cache_lock : g[1] # p)
    /\ \A p \in Procs : (pc[p] # "idle") ~> (pc[p] = "idle")

\* set_tenant holds the tenant lock and waits for the cache lock while a
\* refresh grant waits to read the tenant
C33_Witness ==
    /\ pc["p1"] = "st_cache"
    /\ tenant_lock = "p1"
    /\ pc["p2"] = "rt_send"

====
